---- MODULE Spec2Model ----
(***************************************************************************)
(* A model of paxml's checkpoint manager (checkpoint_managers.py) and of   *)
(* its tuning loop (tuning_lib.py).                                        *)
(*                                                                         *)
(* Three specifications share the module:                                  *)
(*   SpecSave    the save decision of OrbaxCheckpointManager.should_save,  *)
(*               on several JAX processes that hold one manager each;     *)
(*   SpecDelete  the deletion of a checkpoint directory;                   *)
(*   SpecTune    the trial lifecycle of tune and of its early-stopping     *)
(*               callback.                                                 *)
(* A specification leaves the variables of the other two at rest.          *)
(***************************************************************************)
EXTENDS Integers, Sequences, FiniteSets, TLC

VARIABLES
  \* ---- SpecSave: one OrbaxCheckpointManager per JAX process
  save_interval_steps,  \* self._options.save_interval_steps, after __init__
  last_checkpoint,      \* self._last_checkpoint per process: << >> is None, <<s>> a CheckpointInfo of step s
  sync_point,           \* the step the preemption service agreed on: << >> (none) or <<s>>
  pending,              \* per process, the should_save calls its training program has still to make
  last_call,            \* per process, a record of its latest should_save call: << >> or <<record>>
  save_cause,           \* per process, why its last checkpoint exists
  \* ---- SpecDelete: the checkpoint directory and its deletions
  todelete_subdir,      \* options.todelete_subdir: "" when not set
  fs,                   \* the directories under the checkpoint root: path |-> content
  del_step,             \* the step whose deletion is under way: << >> or <<s>>
  del_pc,               \* per process, where it is in _delete_directory
  fs_ops,               \* the filesystem operations of the deletion under way: who did what
  fs_before,            \* the directories as they were when that deletion was asked for
  \* ---- SpecTune: the processes that run tune for one tuner group
  workers,              \* the processes of the group that run
  w_pc,                 \* per process, where it is in tune
  w_trial,              \* per process, feedback.id of the trial it works on (0: none yet)
  w_sub,                \* per process, the index i of the sub-experiment it runs
  w_step,               \* per process, the global step its training loop has reached
  w_calls,              \* per process, the callbacks made so far in its trial
  w_last,               \* per process, whether its latest callback was at the last checkpoint
  w_args,               \* per process, the arguments of the callback it is in
  w_exc,                \* per process, the exception its trial_fn raised
  feedback,             \* per trial, the calls made on its feedback object, in order
  barrier_label,        \* per process, the label of the barrier it waits at ("": none)
  \* ---- SpecCleanup: the checkpoint root at the start-up of a manager
  mock_backend,         \* py_utils.is_mock_tpu_backend()
  root,                 \* the entries of the checkpoint root: name |-> "finalized" or "tmp"
  root_before,          \* the entries as they were before the cleanup
  tmp_dirs,             \* per process, the tmp_dirs it has listed
  cl_pc,                \* per process, where it is in _cleanup_tmp_directories
  cl_ops,               \* the removals made: <<process, name>>
  \* ---- SpecWriteOnce: the debug files of tune under job_log_dir
  gfile,                \* per path: << >> (no file) or <<[content, writer]>>
  gfile_writes,         \* per path, the processes that wrote it, in order
  wo_pc,                \* per process, where it is in _write_file_once
  wo_file,              \* per process, the index of the file it is at
  wo_log,               \* the warnings logged: <<process, path>>
  is_constant,          \* search_space.dna_spec.is_constant of the experiment
  tune_pc,              \* per process, where tune is before its first trial
  makedirs_calls,       \* the processes that called makedirs(job_log_dir)
  artifacts,            \* the artifacts created: <<process, file>>
  \* ---- the functions of the library, called on their own
  fn_args,              \* the arguments of the call
  fn_result             \* << >> before the call returns, then <<what it returned>>

saveVars == <<save_interval_steps, last_checkpoint, sync_point, pending,
              last_call, save_cause>>

deleteVars == <<todelete_subdir, fs, del_step, del_pc, fs_ops, fs_before>>

tuneVars == <<workers, w_pc, w_trial, w_sub, w_step, w_calls, w_last, w_args, w_exc, feedback,
              barrier_label>>

cleanupVars == <<mock_backend, root, root_before, tmp_dirs, cl_pc, cl_ops>>

libVars == <<fn_args, fn_result>>

writeVars == <<gfile, gfile_writes, wo_pc, wo_file, wo_log, is_constant, tune_pc,
               makedirs_calls, artifacts>>

auxVars == <<cleanupVars, libVars, writeVars>>

vars == <<saveVars, deleteVars, tuneVars, auxVars>>

----------------------------------------------------------------------------
(* Bounds of the model.                                                    *)

MaxStep == 3
MaxInterval == 3
MaxPending == 1
MaxCkptStep == 2
MaxTrials == 2
NumSubExperiments == 2
MaxCallbacks == 3

Steps == 0..MaxStep

CkptSteps == 0..MaxCkptStep

\* The JAX processes of the job, by jax.process_index(): the coordinating
\* process 0 and one other.
Processes == {0, 1}

\* The processes of one tuner group: a training job of two JAX processes, which
\* has the metric reporting role, and an evaluation job of one, which has not.
Workers == {"train0", "train1", "eval0"}
Jobs == {"train", "eval"}
JobOf(w) == IF w = "eval0" THEN "eval" ELSE "train"

\* The state SpecSave and SpecDelete leave at rest.
RestTune ==
  /\ workers = {}
  /\ w_pc = [w \in Workers |-> "off"]
  /\ w_trial = [w \in Workers |-> 0]
  /\ w_sub = [w \in Workers |-> 0]
  /\ w_step = [w \in Workers |-> 0]
  /\ w_calls = [w \in Workers |-> 0]
  /\ w_last = [w \in Workers |-> FALSE]
  /\ w_args = << >>
  /\ w_exc = << >>
  /\ feedback = << >>
  /\ barrier_label = [w \in Workers |-> ""]

\* _cleanup_tmp_directories is not running.
RestCleanup ==
  /\ mock_backend = FALSE
  /\ root = << >>
  /\ root_before = << >>
  /\ tmp_dirs = [p \in Processes |-> {}]
  /\ cl_pc = [p \in Processes |-> "idle"]
  /\ cl_ops = {}

\* No function of the library is called.
RestLib ==
  /\ fn_args = << >>
  /\ fn_result = << >>

\* tune has not come to its debug files.
RestWrite ==
  /\ gfile = << >>
  /\ gfile_writes = << >>
  /\ wo_pc = [p \in Processes |-> "idle"]
  /\ wo_file = [p \in Processes |-> 0]
  /\ wo_log = {}
  /\ is_constant = FALSE
  /\ tune_pc = [p \in Processes |-> "idle"]
  /\ makedirs_calls = {}
  /\ artifacts = {}

RestAux == RestCleanup /\ RestLib /\ RestWrite

\* The state SpecSave leaves at rest.
RestDelete ==
  /\ todelete_subdir = ""
  /\ fs = << >>
  /\ del_step = << >>
  /\ del_pc = [p \in Processes |-> "idle"]
  /\ fs_ops = {}
  /\ fs_before = << >>

----------------------------------------------------------------------------
(* OrbaxCheckpointManager.should_save and the saves that follow it.        *)

\* __init__: "Set to 1 if not provided or set to 0."
NormalizedInterval(option) == IF option = 0 THEN 1 ELSE option

\* preemption.reached_preemption_sync_point(step): every process is given the
\* same answer for the same step.
reached_preemption_sync_point(step) == sync_point = <<step>>

\* A should_save that only the coordinating process answers by the cadence.
should_save_on_coordinator(p, step) ==
  \/ reached_preemption_sync_point(step)
  \/ /\ p = 0
     /\ \/ last_checkpoint[p] = << >>
        \/ /\ last_checkpoint[p][1] < step
           /\ step % save_interval_steps = 0

\* A should_save that counts the interval from the last checkpoint.
should_save_from_last(p, step) ==
  \/ reached_preemption_sync_point(step)
  \/ last_checkpoint[p] = << >>
  \/ /\ last_checkpoint[p][1] < step
     /\ (step - last_checkpoint[p][1]) % save_interval_steps = 0

\* A should_save that applies the cadence test to the first checkpoint too.
should_save_cadence_only(p, step) ==
  \/ reached_preemption_sync_point(step)
  \/ /\ \/ last_checkpoint[p] = << >>
        \/ last_checkpoint[p][1] < step
     /\ step % save_interval_steps = 0

\* should_save(self, step), self being the manager of process p.
should_save(p, step) ==
  \/ reached_preemption_sync_point(step)
  \/ last_checkpoint[p] = << >>
  \/ /\ last_checkpoint[p][1] < step
     /\ step % save_interval_steps = 0

\* Why a save at `step` is made, given the state before it.
CauseOfSave(p, step) ==
  IF reached_preemption_sync_point(step) /\ step % save_interval_steps # 0
    THEN "preemption"
    ELSE IF last_checkpoint[p] = << >> THEN "first" ELSE "cadence"

Calls == [step : Steps, save : BOOLEAN]

\* The state SpecDelete leaves at rest.
RestSave ==
  /\ save_interval_steps = 1
  /\ last_checkpoint = [p \in Processes |-> << >>]
  /\ sync_point = << >>
  /\ pending = [p \in Processes |-> << >>]
  /\ last_call = [p \in Processes |-> << >>]
  /\ save_cause = [p \in Processes |-> "none"]

\* Construction: every process lists the same checkpoint directory, so all
\* start from the same last checkpoint (none on an empty directory).
InitSave ==
  /\ \E option \in 0..MaxInterval :
       save_interval_steps = NormalizedInterval(option)
  /\ \E found \in {<< >>} \cup {<<s>> : s \in Steps} :
       /\ last_checkpoint = [p \in Processes |-> found]
       /\ save_cause = [p \in Processes |->
                          IF found = << >> THEN "none" ELSE "discovered"]
  /\ sync_point \in {<< >>} \cup {<<s>> : s \in Steps}
  /\ pending = [p \in Processes |-> << >>]
  /\ last_call = [p \in Processes |-> << >>]
  /\ RestDelete
  /\ RestTune
  /\ RestAux

\* The training program, the same on every process, comes to a point where it
\* asks should_save(step); `save` says whether it saves on a true answer.
Submit(step, save) ==
  /\ \A p \in Processes : Len(pending[p]) < MaxPending
  /\ pending' = [p \in Processes |->
                   Append(pending[p], [step |-> step, save |-> save])]
  /\ UNCHANGED <<save_interval_steps, last_checkpoint, sync_point, last_call,
                 save_cause, deleteVars, tuneVars, auxVars>>

\* Process p makes its next call of should_save, and saves on a true answer
\* when its program does: the save makes `step` the last checkpoint.
CallShouldSave(p) ==
  /\ pending[p] # << >>
  /\ LET call == Head(pending[p])
         result == should_save(p, call.step)
     IN /\ last_call' = [last_call EXCEPT ![p] =
               <<[step |-> call.step,
                  preempt |-> reached_preemption_sync_point(call.step),
                  before |-> last_checkpoint[p],
                  cause |-> save_cause[p],
                  first |-> last_call[p] = << >>,
                  result |-> result]>>]
        /\ IF result /\ call.save
             THEN /\ last_checkpoint' =
                       [last_checkpoint EXCEPT ![p] = <<call.step>>]
                  /\ save_cause' =
                       [save_cause EXCEPT ![p] = CauseOfSave(p, call.step)]
             ELSE UNCHANGED <<last_checkpoint, save_cause>>
  /\ pending' = [pending EXCEPT ![p] = Tail(pending[p])]
  /\ UNCHANGED <<save_interval_steps, sync_point, deleteVars, tuneVars, auxVars>>

NextSave ==
  \/ \E step \in Steps, save \in BOOLEAN : Submit(step, save)
  \/ \E p \in Processes : CallShouldSave(p)

SpecSave == InitSave /\ [][NextSave]_vars

\* The calls of should_save made so far, one (the latest) per process.
MadeCalls == {last_call[p][1] : p \in {q \in Processes : last_call[q] # << >>}}

\* C1, as stated: the first call of a process returns true, and a later call
\* returns true iff step > last_saved_step and step % save_interval_steps = 0,
\* unless a preemption signal for the step forces true.
C1_AsStated ==
  \A c \in MadeCalls :
    /\ c.first => c.result
    /\ (~c.first /\ ~c.preempt) =>
          (c.result <=> /\ c.before # << >>
                        /\ c.step > c.before[1]
                        /\ c.step % save_interval_steps = 0)
    /\ c.preempt => c.result

\* C1, amended: a call made while the manager holds no checkpoint (none found at
\* construction, none saved since) returns true, the first call included; a call
\* made while it holds one returns true iff step > last_saved_step and
\* step % save_interval_steps = 0; a preemption signal for the step forces true.
C1_ShouldSaveContract ==
  \A c \in MadeCalls :
    /\ c.before = << >> => c.result
    /\ (c.before # << >> /\ ~c.preempt) =>
          (c.result <=> /\ c.step > c.before[1]
                        /\ c.step % save_interval_steps = 0)
    /\ c.preempt => c.result

\* A first call on a manager without a checkpoint, off the cadence, answered true;
\* and by the other process a call with a checkpoint, off the cadence, answered false.
C1_Witness ==
  \E c, d \in MadeCalls :
    /\ c.first /\ c.before = << >> /\ ~c.preempt /\ c.result
    /\ c.step % save_interval_steps # 0
    /\ ~d.first /\ d.before # << >> /\ ~d.preempt /\ ~d.result
    /\ d.step > d.before[1]

\* C7: once the last checkpoint is one saved on preemption at an off-cadence step
\* p, a call for step s without a preemption signal returns true exactly when
\* s > p and s % save_interval_steps = 0: the cadence stays on the multiples of the
\* interval and does not restart from p.
C7_CadenceKeptAfterPreemption ==
  \A c \in MadeCalls :
    (c.cause = "preemption" /\ ~c.preempt) =>
      (c.result <=> (c.step > c.before[1] /\ c.step % save_interval_steps = 0))

\* After a preemption save at p (off cadence), a later on-cadence step that is not
\* a whole interval after p is answered true.
C7_Witness ==
  \E c \in MadeCalls :
    /\ c.cause = "preemption" /\ ~c.preempt /\ c.result
    /\ c.before[1] % save_interval_steps # 0
    /\ (c.step - c.before[1]) % save_interval_steps # 0

\* C8: processes that have made the same calls hold the same last checkpoint and
\* got the same answer to their latest call: the save decisions agree without any
\* communication between the processes.
C8_SameDecisions ==
  \A p, q \in Processes :
    Len(pending[p]) = Len(pending[q]) =>
      /\ last_checkpoint[p] = last_checkpoint[q]
      /\ last_call[p] = last_call[q]

\* Both processes have answered the same call with true, one after the other, and
\* both have saved.
C8_Witness ==
  /\ \A p \in Processes : last_call[p] # << >> /\ pending[p] = << >>
  /\ \A p \in Processes : last_call[p][1].result /\ ~last_call[p][1].first
  /\ \A p \in Processes : last_checkpoint[p] = <<last_call[p][1].step>>
  /\ \A p \in Processes : last_call[p][1].before # last_checkpoint[p]

----------------------------------------------------------------------------
(* OrbaxCheckpointManager._delete_directory on the checkpoint directory.   *)

CHECKPOINT_PREFIX == "checkpoint_"

\* _checkpoint_name(step): the prefix followed by the step.
checkpoint_name(step) == CHECKPOINT_PREFIX \o ToString(step)

\* directory / name, as a path relative to the checkpoint root.
Join(dir, name) == dir \o "/" \o name

\* src and dst of the rename in _delete_directory.
RenameSrc(step) == checkpoint_name(step)
RenameDst(step) == Join(todelete_subdir, checkpoint_name(step))

\* What a checkpoint directory holds.
Contents == {"a", "b"}

\* The name a soft-delete subdirectory is given.
ArchiveName == "archive"

Present(f) == {s \in CkptSteps : f[s] # "absent"}

\* The directory tree with the checkpoints `kept` under the root and, when
\* `archived` is not << >>, a soft-delete directory holding <<archived>>.
MakeFs(kept, archived) ==
  LET top == [x \in {checkpoint_name(s) : s \in Present(kept)} |->
                kept[CHOOSE s \in Present(kept) : checkpoint_name(s) = x]]
  IN IF archived = << >> THEN top
     ELSE LET old == archived[1]
          IN top @@ (ArchiveName :> "dir") @@
             [x \in {Join(ArchiveName, checkpoint_name(s)) : s \in Present(old)} |->
                old[CHOOSE s \in Present(old) :
                      Join(ArchiveName, checkpoint_name(s)) = x]]

\* What tf.io.gfile.rename does when dst exists already is the storage
\* backend's: it fails and changes nothing, or dst is replaced.
RenameOntoExisting == {"error", "replace"}

\* Construction: any checkpoints under the root and, from an earlier use of the
\* directory, possibly a soft-delete directory with checkpoints in it.
InitDelete ==
  /\ todelete_subdir \in {"", ArchiveName}
  /\ \E kept \in [CkptSteps -> Contents \cup {"absent"}] :
       \E archived \in {<< >>} \cup
                        {<<f>> : f \in [CkptSteps -> Contents \cup {"absent"}]} :
         fs = MakeFs(kept, archived)
  /\ del_step = << >>
  /\ del_pc = [p \in Processes |-> "idle"]
  /\ fs_ops = {}
  /\ fs_before = fs
  /\ RestSave
  /\ RestTune
  /\ RestAux

\* The retention logic, the same on every process, deletes the checkpoint of
\* `step`: each process is about to call _delete_directory(step).
StartDelete(step) ==
  /\ \A p \in Processes : del_pc[p] = "idle"
  /\ checkpoint_name(step) \in DOMAIN fs
  /\ del_step' = <<step>>
  /\ del_pc' = [p \in Processes |-> "called"]
  /\ fs_ops' = {}
  /\ fs_before' = fs
  /\ UNCHANGED <<todelete_subdir, fs, saveVars, tuneVars, auxVars>>

\* A _delete_directory that every process carries out.
delete_skipped_by_none(p) == FALSE

\* `if jax.process_index() != 0: return`
delete_skipped(p) == p # 0

Remove(f, path) == [x \in DOMAIN f \ {path} |-> f[x]]

\* A rename that leaves src in place (a copy).
Renamed_keeping_src(f, src, dst) == [x \in DOMAIN f \cup {dst} |->
                                       IF x = dst THEN f[src] ELSE f[x]]

\* tf.io.gfile.rename(src, dst), src existing: dst holds what src held, src is gone.
Renamed(f, src, dst) == [x \in (DOMAIN f \ {src}) \cup {dst} |->
                           IF x = dst THEN f[src] ELSE f[x]]

\* rename_dir.mkdir(parents=True) when rename_dir does not exist.
WithRenameDir(f) ==
  IF todelete_subdir \in DOMAIN f THEN f ELSE f @@ (todelete_subdir :> "dir")

\* _delete_directory(step) on process p.
DeleteDirectory(p) ==
  /\ del_pc[p] = "called"
  /\ LET step == del_step[1]
         src == RenameSrc(step)
         dst == RenameDst(step)
         made == IF todelete_subdir \in DOMAIN fs THEN {}
                 ELSE {[proc |-> p, op |-> "mkdir"]}
     IN IF delete_skipped(p)
          THEN /\ del_pc' = [del_pc EXCEPT ![p] = "returned"]
               /\ UNCHANGED <<fs, fs_ops>>
          ELSE IF todelete_subdir # ""
            THEN /\ fs_ops' = fs_ops \cup made \cup {[proc |-> p, op |-> "rename"]}
                 /\ IF src \notin DOMAIN fs
                      THEN \* the rename fails: there is no src
                           /\ fs' = WithRenameDir(fs)
                           /\ del_pc' = [del_pc EXCEPT ![p] = "raised"]
                      ELSE IF dst \in DOMAIN fs
                        THEN \E outcome \in RenameOntoExisting :
                               IF outcome = "error"
                                 THEN /\ fs' = fs
                                      /\ del_pc' = [del_pc EXCEPT ![p] = "raised"]
                                 ELSE /\ fs' = Renamed(fs, src, dst)
                                      /\ del_pc' = [del_pc EXCEPT ![p] = "returned"]
                        ELSE /\ fs' = Renamed(WithRenameDir(fs), src, dst)
                             /\ del_pc' = [del_pc EXCEPT ![p] = "returned"]
            ELSE \* super()._delete_directory(step): the directory is removed
                 /\ fs_ops' = fs_ops \cup {[proc |-> p, op |-> "rmtree"]}
                 /\ fs' = Remove(fs, src)
                 /\ del_pc' = [del_pc EXCEPT ![p] = "returned"]
  /\ UNCHANGED <<todelete_subdir, del_step, fs_before, saveVars, tuneVars, auxVars>>

\* The barrier the caller of _delete_directory enters after it: it lets the
\* processes go on once each has returned from _delete_directory.
SyncAfterDelete ==
  /\ \A p \in Processes : del_pc[p] = "returned"
  /\ del_pc' = [p \in Processes |-> "idle"]
  /\ del_step' = << >>
  /\ UNCHANGED <<todelete_subdir, fs, fs_ops, fs_before, saveVars, tuneVars, auxVars>>

NextDelete ==
  \/ \E step \in CkptSteps : StartDelete(step)
  \/ \E p \in Processes : DeleteDirectory(p)
  \/ SyncAfterDelete

SpecDelete == InitDelete /\ [][NextDelete]_vars

\* Process p is through its _delete_directory of the deletion under way.
Deleted(p) == del_step # << >> /\ del_pc[p] \in {"returned", "raised"}

\* C9: only process 0 acts on the filesystem for a delete, and it does act; every
\* other process does nothing, fails nowhere, and comes to the barrier that
\* follows the delete.
C9_OnlyCoordinatorDeletes ==
  /\ \A o \in fs_ops : o.proc = 0
  /\ Deleted(0) => \E o \in fs_ops : o.op \in {"rename", "rmtree"}
  /\ \A p \in Processes \ {0} :
       /\ del_pc[p] # "raised"
       /\ (Deleted(p) /\ del_pc[0] = "called") => fs = fs_before

\* Both processes are through _delete_directory: process 0 has moved the
\* checkpoint directory away, the other has done nothing and is at the barrier.
C9_Witness ==
  /\ \A p \in Processes : del_step # << >> /\ del_pc[p] = "returned"
  /\ fs_ops # {}
  /\ RenameSrc(del_step[1]) \notin DOMAIN fs

\* The state after a soft delete of `step` from the directories `before`: the
\* checkpoint is under the soft-delete directory with what it held, no longer under
\* the root, and the other checkpoints under the root are as they were.
SoftDeleted(before, after, step) ==
  /\ RenameSrc(step) \notin DOMAIN after
  /\ RenameDst(step) \in DOMAIN after
  /\ after[RenameDst(step)] = before[RenameSrc(step)]
  /\ todelete_subdir \in DOMAIN after
  /\ \A s \in CkptSteps \ {step} :
       /\ checkpoint_name(s) \in DOMAIN after <=> checkpoint_name(s) \in DOMAIN before
       /\ checkpoint_name(s) \in DOMAIN after =>
            after[checkpoint_name(s)] = before[checkpoint_name(s)]

----------------------------------------------------------------------------
(* tune and the early-stopping callback of _get_early_stopping_fn.         *)

\* automl.SUB_EXPERIMENT_STEP_OFFSET, the SUB_EXPERIMENT_STEP_INTERVAL of the module.
SUB_EXPERIMENT_STEP_OFFSET == 1000000000

Trials == 1..MaxTrials
SubExperiments == 0..(NumSubExperiments - 1)

\* jax.process_index() within the job of the process.
process_index(w) == IF w = "train1" THEN 1 ELSE 0

\* The is_metric_reporting_role argument tune is given on process w.
is_metric_reporting_role(w) == JobOf(w) = "train"

JobWorkers(j) == {w \in workers : JobOf(w) = j}

\* The key of the i-th entry of experiment_config.sub_experiments().
sub_experiment_id(i) == "exp" \o ToString(i)

\* The arguments _get_early_stopping_fn is given for the i-th sub-experiment.
is_last_experiment(i) == i = NumSubExperiments - 1
tuning_step_start_of_none(i) == 0
tuning_step_start(i) == i * SUB_EXPERIMENT_STEP_OFFSET

\* trainer_lib.RunningMode values the training loop reports.
Modes == {{"TRAIN"}, {"TRAIN", "EVAL"}, {"DECODE"}}
HasEvalOrDecode(mode) == "EVAL" \in mode \/ "DECODE" \in mode

\* What reward_fn returns: a number or NaN.
Rewards == {"reward", "NaN"}
isnan(reward) == reward = "NaN"

\* What an EarlyStoppingError carries as e.reward: None, or a number.
GivenRewards == {"None", "reward"}

\* search_hparams.errors_to_skip, and what skip_on_exceptions is given.
errors_to_skip == {"SkippedError"}
SkippedExceptions_numeric_only == {"FloatingPointError"}
SkippedExceptions == {"FloatingPointError"} \cup errors_to_skip
ErrorTypes == {"SkippedError", "OtherError"}

\* The EarlyStoppingError signals of a training loop at raw step `step`.
StopSignals(step) ==
  {[type |-> "EarlyStoppingError", skip |-> TRUE, skip_reason |-> r,
    reward |-> "None", step |-> step] : r \in {"", "infeasible"}}
  \cup
  {[type |-> "EarlyStoppingError", skip |-> FALSE, skip_reason |-> "",
    reward |-> r, step |-> step] : r \in GivenRewards}

\* Any other exception of a training loop.
Errors(step) ==
  {[type |-> ty, skip |-> FALSE, skip_reason |-> "", reward |-> "None",
    step |-> step] : ty \in ErrorTypes}

NoArgs == [running_mode |-> {}, is_last_ckpt |-> FALSE]
NoException == [type |-> "", skip |-> FALSE, skip_reason |-> "",
                reward |-> "None", step |-> 0]

\* feedback.add_measurement, feedback.done and feedback.skip on trial t, by
\* process w: the controller's record of the trial is the list of these calls.
AddMeasurement(fb, t, w, reward, metrics, step) ==
  [fb EXCEPT ![t] = Append(@, [op |-> "add_measurement", by |-> w,
                               reward |-> reward, metrics |-> metrics,
                               step |-> step, reason |-> ""])]
MarkDone(fb, t, w) ==
  [fb EXCEPT ![t] = Append(@, [op |-> "done", by |-> w, reward |-> "",
                               metrics |-> "", step |-> 0, reason |-> ""])]
Skip(fb, t, w, reason) ==
  [fb EXCEPT ![t] = Append(@, [op |-> "skip", by |-> w, reward |-> "",
                               metrics |-> "", step |-> 0, reason |-> reason])]

TerminationLabel(i, global_step, phase) ==
  "Sync on trial (sub-experiment=" \o sub_experiment_id(i) \o
  ") termination at step " \o ToString(global_step) \o " " \o phase \o "."
EarlyStoppingLabel(t, phase) ==
  "Sync on trial " \o ToString(t) \o " early stopping " \o phase \o "."

\* The processes of job j are all inside the training loop of the same
\* sub-experiment of the same trial, at the same global step.
InLoop(j, t, i, g) ==
  /\ JobWorkers(j) # {}
  /\ \A w \in JobWorkers(j) :
       w_pc[w] = "loop" /\ w_trial[w] = t /\ w_sub[w] = i /\ w_step[w] = g

\* tune is called on every process of a job; no trial is sampled yet. The jobs
\* of a tuner group meet only in the controller's record of a trial, and one
\* job is followed at a time: a trainer job of one or of two processes, or the
\* process 0 of an evaluator job.
InitTune ==
  /\ workers \in {{"train0"}, {"train0", "train1"}, {"eval0"}}
  /\ w_pc = [w \in Workers |-> IF w \in workers THEN "sample" ELSE "off"]
  /\ w_trial = [w \in Workers |-> 0]
  /\ w_sub = [w \in Workers |-> 0]
  /\ w_step = [w \in Workers |-> 0]
  /\ w_calls = [w \in Workers |-> 0]
  /\ w_last = [w \in Workers |-> FALSE]
  /\ w_args = [w \in Workers |-> NoArgs]
  /\ w_exc = [w \in Workers |-> NoException]
  /\ feedback = [t \in Trials |-> << >>]
  /\ barrier_label = [w \in Workers |-> ""]
  /\ RestSave
  /\ RestDelete
  /\ RestAux

\* The record of a trial is kept as long as a process of the group may still
\* work on it.
Forgetting(fb, w) ==
  [t \in Trials |->
     IF t = w_trial[w] /\ \A v \in workers \ {w} : w_trial[v] > t \/ w_pc[v] = "finished"
       THEN << >> ELSE fb[t]]

\* `for example, feedback in pg.sample(...)`: process w is given the next trial
\* of its group and calls trial_fn for the first sub-experiment, or the trials
\* are exhausted and tune returns.
NextTrial(w) ==
  /\ w \in workers /\ w_pc[w] = "sample"
  /\ IF w_trial[w] < MaxTrials
       THEN /\ w_trial' = [w_trial EXCEPT ![w] = @ + 1]
            /\ w_pc' = [w_pc EXCEPT ![w] = "loop"]
       ELSE /\ w_pc' = [w_pc EXCEPT ![w] = "finished"]
            /\ UNCHANGED w_trial
  /\ w_sub' = [w_sub EXCEPT ![w] = 0]
  /\ w_step' = [w_step EXCEPT ![w] = 0]
  /\ w_calls' = [w_calls EXCEPT ![w] = 0]
  /\ w_last' = [w_last EXCEPT ![w] = FALSE]
  /\ feedback' = Forgetting(feedback, w)
  /\ UNCHANGED <<workers, w_args, w_exc, barrier_label, saveVars, deleteVars, auxVars>>

\* The training loop of job j, in step on all its processes, calls the
\* early-stopping callback at its next global step.
Invoke(j, mode, last) ==
  \E t \in Trials, i \in SubExperiments, g \in 0..(MaxCallbacks - 1) :
    /\ InLoop(j, t, i, g)
    /\ \A w \in JobWorkers(j) : w_calls[w] < MaxCallbacks
    /\ w_step' = [w \in Workers |->
                    IF w \in JobWorkers(j) THEN g + 1 ELSE w_step[w]]
    /\ w_calls' = [w \in Workers |->
                     IF w \in JobWorkers(j) THEN w_calls[w] + 1 ELSE w_calls[w]]
    /\ w_last' = [w \in Workers |->
                    IF w \in JobWorkers(j) THEN last ELSE w_last[w]]
    /\ w_args' = [w \in Workers |->
                    IF w \in JobWorkers(j)
                      THEN [running_mode |-> mode, is_last_ckpt |-> last]
                      ELSE w_args[w]]
    /\ w_pc' = [w \in Workers |-> IF w \in JobWorkers(j) THEN "cb" ELSE w_pc[w]]
    /\ UNCHANGED <<workers, w_trial, w_sub, w_exc, feedback, barrier_label,
                   saveVars, deleteVars, auxVars>>

\* trial_fn returns on the processes of job j, whose training loop has made
\* the callback of its last checkpoint: the next sub-experiment is run, or the
\* body of the trial is left.
Return(j) ==
  \E t \in Trials, i \in SubExperiments, g \in 0..MaxCallbacks :
    /\ InLoop(j, t, i, g)
    /\ \A w \in JobWorkers(j) : w_last[w]
    /\ w_last' = [w \in Workers |->
                    IF w \in JobWorkers(j) THEN FALSE ELSE w_last[w]]
    /\ IF i + 1 < NumSubExperiments
         THEN /\ w_sub' = [w \in Workers |->
                             IF w \in JobWorkers(j) THEN i + 1 ELSE w_sub[w]]
              /\ UNCHANGED w_pc
         ELSE /\ w_pc' = [w \in Workers |->
                            IF w \in JobWorkers(j) THEN "sample" ELSE w_pc[w]]
              /\ UNCHANGED w_sub
    /\ w_step' = [w \in Workers |->
                    IF w \in JobWorkers(j) THEN 0 ELSE w_step[w]]
    /\ UNCHANGED <<workers, w_trial, w_calls, w_args, w_exc, feedback,
                   barrier_label, saveVars, deleteVars, auxVars>>

\* trial_fn raises on the processes of job j: an EarlyStoppingError or another
\* exception.
Raise(j) ==
  \E t \in Trials, i \in SubExperiments, g \in 0..MaxCallbacks :
    /\ InLoop(j, t, i, g)
    /\ \E e \in StopSignals(g) \cup Errors(g) :
         w_exc' = [w \in Workers |-> IF w \in JobWorkers(j) THEN e ELSE w_exc[w]]
    /\ w_pc' = [w \in Workers |->
                  IF w \in JobWorkers(j) THEN "raised" ELSE w_pc[w]]
    /\ UNCHANGED <<workers, w_trial, w_sub, w_step, w_calls, w_last, w_args, feedback,
                   barrier_label, saveVars, deleteVars, auxVars>>

\* should_stop_early: `if jax.process_index() == 0 and (running_mode & EVAL or
\* running_mode & DECODE)`, under `if is_metric_reporting_role`.
reports_measurement(w, mode) ==
  is_metric_reporting_role(w) /\ process_index(w) = 0 /\ HasEvalOrDecode(mode)

\* should_stop_early: `if is_last_experiment and jax.process_index() == 0`.
marks_done(w, i) == is_last_experiment(i) /\ process_index(w) = 0

\* tune: `if jax.process_index() == 0` in the EarlyStoppingError handler.
handles_stop(w) == process_index(w) = 0

\* should_stop_early, to its first barrier: the reward is computed and reported
\* (a NaN reward raises FloatingPointError, which leaves trial_fn and tune's try
\* and makes skip_on_exceptions skip the trial); at the last checkpoint the process
\* enters the "termination started" barrier, else the callback returns
\* feedback.should_stop_early() to the training loop.
CallbackReport(w) ==
  /\ w \in workers /\ w_pc[w] = "cb"
  /\ LET c == w_args[w]
         t == w_trial[w]
         i == w_sub[w]
         tuning_step == tuning_step_start(i) + w_step[w]
         metrics == IF sub_experiment_id(i) # ""
                      THEN "metrics:" \o sub_experiment_id(i) ELSE "metrics"
     IN IF ~is_metric_reporting_role(w)
          THEN /\ w_pc' = [w_pc EXCEPT ![w] = "loop"]
               /\ w_args' = [w_args EXCEPT ![w] = NoArgs]
               /\ UNCHANGED <<feedback, barrier_label>>
          ELSE \E reward \in IF reports_measurement(w, c.running_mode)
                               THEN Rewards ELSE {"None"} :
                 IF reports_measurement(w, c.running_mode) /\ isnan(reward)
                   THEN /\ feedback' = Skip(feedback, t, w, "Reward is NaN.")
                        /\ w_pc' = [w_pc EXCEPT ![w] = "sample"]
                        /\ w_args' = [w_args EXCEPT ![w] = NoArgs]
                        /\ UNCHANGED barrier_label
                   ELSE /\ feedback' =
                             IF reports_measurement(w, c.running_mode)
                               THEN AddMeasurement(feedback, t, w, reward,
                                                   metrics, tuning_step)
                               ELSE feedback
                        /\ IF c.is_last_ckpt
                             THEN /\ barrier_label' =
                                       [barrier_label EXCEPT ![w] =
                                          TerminationLabel(i, w_step[w], "started")]
                                  /\ w_pc' = [w_pc EXCEPT ![w] = "cb_started"]
                                  /\ UNCHANGED w_args
                             ELSE /\ w_pc' = [w_pc EXCEPT ![w] = "loop"]
                                  /\ w_args' = [w_args EXCEPT ![w] = NoArgs]
                                  /\ UNCHANGED barrier_label
  /\ UNCHANGED <<workers, w_trial, w_sub, w_step, w_calls, w_last, w_exc, saveVars, deleteVars, auxVars>>

\* should_stop_early, between its barriers: in the last sub-experiment process 0
\* adds the final measurement (_add_final_measurement, at tuning_step + 1, with
\* the reward reward_fn gives for the aggregated metrics) and marks the trial
\* done; the process enters the "termination completed" barrier.
CallbackTerminate(w) ==
  /\ w \in workers /\ w_pc[w] = "cb_terminate"
  /\ LET t == w_trial[w]
         i == w_sub[w]
         tuning_step == tuning_step_start(i) + w_step[w]
     IN /\ IF marks_done(w, i)
             THEN \E final_reward \in Rewards :
                    feedback' = MarkDone(
                       AddMeasurement(feedback, t, w, final_reward,
                                      "final_metrics", tuning_step + 1), t, w)
             ELSE UNCHANGED feedback
        /\ barrier_label' = [barrier_label EXCEPT ![w] =
                               TerminationLabel(i, w_step[w], "completed")]
  /\ w_pc' = [w_pc EXCEPT ![w] = "cb_completed"]
  /\ w_args' = [w_args EXCEPT ![w] = NoArgs]
  /\ UNCHANGED <<workers, w_trial, w_sub, w_step, w_calls, w_last, w_exc, saveVars, deleteVars, auxVars>>

stop_reward_always_computed(e, computed) == computed

\* tune: `reward = e.reward`, `if reward is None: reward = reward_fn(e.metrics,
\* e.step)`.
stop_reward(e, computed) == IF e.reward = "None" THEN computed ELSE e.reward

\* tune, `except automl.EarlyStoppingError as e`, to the first barrier; any
\* other exception reaches skip_on_exceptions, which skips the trial when the
\* exception is one of those it is given, and lets it end tune otherwise.
HandleException(w) ==
  /\ w \in workers /\ w_pc[w] = "raised"
  /\ LET e == w_exc[w]
         t == w_trial[w]
     IN IF e.type = "EarlyStoppingError"
          THEN IF ~handles_stop(w)
            THEN /\ w_pc' = [w_pc EXCEPT ![w] = "sample"]
                 /\ w_exc' = [w_exc EXCEPT ![w] = NoException]
                 /\ UNCHANGED <<feedback, barrier_label>>
            ELSE IF e.skip
              THEN /\ barrier_label' = [barrier_label EXCEPT ![w] =
                                          EarlyStoppingLabel(t, "started")]
                   /\ w_pc' = [w_pc EXCEPT ![w] = "es_skip"]
                   /\ UNCHANGED <<feedback, w_exc>>
              ELSE /\ \E computed \in Rewards :
                        feedback' = AddMeasurement(
                           feedback, t, w, stop_reward(e, computed),
                           "e.metrics", e.step)
                   /\ barrier_label' = [barrier_label EXCEPT ![w] =
                                          EarlyStoppingLabel(t, "started")]
                   /\ w_pc' = [w_pc EXCEPT ![w] = "es_done"]
                   /\ w_exc' = [w_exc EXCEPT ![w] = NoException]
          ELSE IF e.type \in SkippedExceptions
            THEN /\ feedback' = Skip(feedback, t, w, e.type)
                 /\ w_pc' = [w_pc EXCEPT ![w] = "sample"]
                 /\ w_exc' = [w_exc EXCEPT ![w] = NoException]
                 /\ UNCHANGED barrier_label
            ELSE /\ w_pc' = [w_pc EXCEPT ![w] = "aborted"]
                 /\ w_exc' = [w_exc EXCEPT ![w] = NoException]
                 /\ UNCHANGED <<feedback, barrier_label>>
  /\ UNCHANGED <<workers, w_trial, w_sub, w_step, w_calls, w_last, w_args, saveVars, deleteVars, auxVars>>

\* tune, the EarlyStoppingError handler between its barriers: feedback.skip with
\* the reason given (or 'Unknown.'), or feedback.done.
HandleStop(w) ==
  /\ w \in workers /\ w_pc[w] \in {"es_skip_go", "es_done_go"}
  /\ LET e == w_exc[w]
         t == w_trial[w]
     IN feedback' =
          IF w_pc[w] = "es_skip_go"
            THEN Skip(feedback, t, w,
                      IF e.skip_reason # "" THEN e.skip_reason ELSE "Unknown.")
            ELSE MarkDone(feedback, t, w)
  /\ barrier_label' = [barrier_label EXCEPT ![w] =
                         EarlyStoppingLabel(w_trial[w], "completed")]
  /\ w_pc' = [w_pc EXCEPT ![w] = "es_completed"]
  /\ w_exc' = [w_exc EXCEPT ![w] = NoException]
  /\ UNCHANGED <<workers, w_trial, w_sub, w_step, w_calls, w_last, w_args, saveVars, deleteVars, auxVars>>

\* Where a process goes on when the barrier it waits at lets it pass.
AfterBarrier(pc) ==
  CASE pc = "cb_started" -> "cb_terminate"
    [] pc = "cb_completed" -> "loop"
    [] pc = "es_skip" -> "es_skip_go"
    [] pc = "es_done" -> "es_done_go"
    [] pc = "es_completed" -> "sample"
    [] OTHER -> pc

\* sync_global_devices returns: every process of the job waits at the barrier,
\* with the same label.
BarrierPass(j) ==
  /\ JobWorkers(j) # {}
  /\ \A w \in JobWorkers(j) : barrier_label[w] # ""
  /\ \A w, v \in JobWorkers(j) : barrier_label[w] = barrier_label[v]
  /\ w_pc' = [w \in Workers |->
                IF w \in JobWorkers(j) THEN AfterBarrier(w_pc[w]) ELSE w_pc[w]]
  /\ barrier_label' = [w \in Workers |->
                         IF w \in JobWorkers(j) THEN "" ELSE barrier_label[w]]
  /\ UNCHANGED <<workers, w_trial, w_sub, w_step, w_calls, w_last, w_args, w_exc, feedback,
                 saveVars, deleteVars, auxVars>>

NextTune ==
  \/ \E w \in Workers : NextTrial(w)
  \/ \E j \in Jobs, mode \in Modes, last \in BOOLEAN : Invoke(j, mode, last)
  \/ \E j \in Jobs : Return(j)
  \/ \E j \in Jobs : Raise(j)
  \/ \E w \in Workers : CallbackReport(w)
  \/ \E w \in Workers : CallbackTerminate(w)
  \/ \E w \in Workers : HandleException(w)
  \/ \E w \in Workers : HandleStop(w)
  \/ \E j \in Jobs : BarrierPass(j)

SpecTune == InitTune /\ [][NextTune]_vars

----------------------------------------------------------------------------
(* Claims about tune and the early-stopping callback.                      *)

\* The calls of kind `op` in the controller's record of trial t.
CallsOn(t, op) == {k \in DOMAIN feedback[t] : feedback[t][k].op = op}

\* The reporting process 0 has left the body of trial t.
TrialLeft(t) ==
  /\ "train0" \in workers
  /\ w_trial["train0"] = t
  /\ w_pc["train0"] = "sample"

\* C2 (as the specification states it): every trial is marked done exactly
\* once: feedback.done() is never called a second time on a trial, and a trial
\* the reporting process has left without skipping it has been marked done.
C2_AsStated ==
  \A t \in Trials :
    /\ Cardinality(CallsOn(t, "done")) <= 1
    /\ (TrialLeft(t) /\ CallsOn(t, "skip") = {})
         => Cardinality(CallsOn(t, "done")) = 1

\* C3 (as the specification states it): add_measurement, done and skip are
\* called on a trial only by processes whose is_metric_reporting_role is True.
C3_AsStated ==
  \A t \in Trials : \A k \in DOMAIN feedback[t] :
    is_metric_reporting_role(feedback[t][k].by)

\* Process w waits at a barrier that process v of its job does not come to: v
\* has gone on to a later trial or has left tune, or waits under another label.
WaitsInVainFor(w, v) ==
  /\ barrier_label[w] # ""
  /\ \/ w_trial[v] > w_trial[w]
     \/ w_pc[v] \in {"finished", "aborted"}
     \/ barrier_label[v] \notin {"", barrier_label[w]}

\* C4 (as the specification states it): a barrier one process of a job enters
\* while terminating a trial is entered, under the same label, by every other
\* process of the job: no process waits at a barrier the others never reach.
C4_AsStated ==
  \A j \in Jobs : \A w, v \in JobWorkers(j) : ~WaitsInVainFor(w, v)

\* reward_fn has returned NaN for trial t: the callback skipped the trial for
\* it, or the NaN was reported as the reward of a measurement.
RewardWasNaN(t) ==
  \E k \in DOMAIN feedback[t] :
    \/ feedback[t][k].op = "skip" /\ feedback[t][k].reason = "Reward is NaN."
    \/ feedback[t][k].op = "add_measurement" /\ isnan(feedback[t][k].reward)

\* C5 (as the specification states it): a trial whose reward is NaN is reported
\* as skipped with a non-empty reason, and tune goes on without raising.
C5_AsStated ==
  \A t \in Trials :
    RewardWasNaN(t) =>
      /\ \E k \in CallsOn(t, "skip") : feedback[t][k].reason # ""
      /\ \A w \in workers : w_trial[w] = t => w_pc[w] # "aborted"

\* C6 (as the specification states it): no measurement whose reward is NaN is
\* reported to the search controller through add_measurement.
C6_AsStated ==
  \A t \in Trials : \A k \in CallsOn(t, "add_measurement") :
    ~isnan(feedback[t][k].reward)

----------------------------------------------------------------------------
(* OrbaxCheckpointManager._cleanup_tmp_directories.                        *)

\* The state the specifications of the other groups leave at rest.
RestMain == RestSave /\ RestDelete /\ RestTune

\* The names an entry of the checkpoint root can have: a checkpoint of a step, or
\* something else.
OtherName == "state"
RootNames == {checkpoint_name(s) : s \in CkptSteps} \cup {OtherName}

\* self.directory.glob(CHECKPOINT_PREFIX + '*'): the entries whose name starts
\* with the prefix.
Glob(entries) == entries \cap {CHECKPOINT_PREFIX \o ToString(s) : s \in CkptSteps}

\* orbax.checkpoint.utils.is_checkpoint_item_finalized(f), on the entries as
\* they are.
is_checkpoint_item_finalized(f) == root[f] = "finalized"

\* Start-up: the root holds directories, finalized or left unfinalized by a
\* crash in mid-write; the backend is a real or a mock one.
InitCleanup ==
  /\ mock_backend \in BOOLEAN
  /\ \E names \in SUBSET RootNames : root \in [names -> {"finalized", "tmp"}]
  /\ root_before = root
  /\ tmp_dirs = [p \in Processes |-> {}]
  /\ cl_pc = [p \in Processes |-> "start"]
  /\ cl_ops = {}
  /\ RestMain
  /\ RestLib
  /\ RestWrite

\* `if py_utils.is_mock_tpu_backend(): return`, else the list of tmp_dirs.
ListTmpDirs(p) ==
  /\ cl_pc[p] = "start"
  /\ IF mock_backend
       THEN /\ cl_pc' = [cl_pc EXCEPT ![p] = "skipped"]
            /\ UNCHANGED tmp_dirs
       ELSE /\ tmp_dirs' = [tmp_dirs EXCEPT ![p] =
                  {f \in Glob(DOMAIN root) : ~is_checkpoint_item_finalized(f)}]
            /\ cl_pc' = [cl_pc EXCEPT ![p] = "listed"]
  /\ UNCHANGED <<mock_backend, root, root_before, cl_ops, saveVars, deleteVars,
                 tuneVars, libVars, writeVars>>

cleanup_skips_removal_never(p) == FALSE

\* `if jax.process_index() == 0:` guards the removal.
cleanup_skips_removal(p) == p # 0

\* tmp_dir.rmtree() removes the directory; one already gone cannot be removed.
cleanup_keeps(f) == f \notin DOMAIN root

\* The removal of the tmp_dirs by process 0, and the entry of every process into
\* the barrier 'cleanup_tmp_dirs'.
RemoveTmpDirs(p) ==
  /\ cl_pc[p] = "listed"
  /\ IF cleanup_skips_removal(p)
       THEN UNCHANGED <<root, cl_ops>>
       ELSE LET gone == {f \in tmp_dirs[p] : ~cleanup_keeps(f)}
            IN /\ root' = [f \in DOMAIN root \ gone |-> root[f]]
               /\ cl_ops' = cl_ops \cup {<<p, f>> : f \in gone}
  /\ cl_pc' = [cl_pc EXCEPT ![p] = "barrier"]
  /\ UNCHANGED <<mock_backend, root_before, tmp_dirs, saveVars, deleteVars,
                 tuneVars, libVars, writeVars>>

\* py_utils.sync_global_devices('cleanup_tmp_dirs') returns on every process
\* once all are in it.
CleanupSync ==
  /\ \A p \in Processes : cl_pc[p] = "barrier"
  /\ cl_pc' = [p \in Processes |-> "synced"]
  /\ UNCHANGED <<mock_backend, root, root_before, tmp_dirs, cl_ops, saveVars,
                 deleteVars, tuneVars, libVars, writeVars>>

NextCleanup ==
  \/ \E p \in Processes : ListTmpDirs(p)
  \/ \E p \in Processes : RemoveTmpDirs(p)
  \/ CleanupSync

SpecCleanup == InitCleanup /\ [][NextCleanup]_vars

\* The checkpoint directories of the root, before the cleanup, without a
\* finalization marker.
Unfinalized == {f \in Glob(DOMAIN root_before) : root_before[f] = "tmp"}

\* C11: the cleanup removes exactly the checkpoint directories without a
\* finalization marker and no finalized one; only process 0 removes; all the
\* processes then pass one barrier together; on a mock backend nothing is
\* removed and no process comes to the barrier.
C11_CleanupIncomplete ==
  /\ \A op \in cl_ops : op[1] = 0 /\ op[2] \in Unfinalized
  /\ \A f \in DOMAIN root_before \ Unfinalized :
       f \in DOMAIN root /\ root[f] = root_before[f]
  /\ DOMAIN root \subseteq DOMAIN root_before
  /\ (~mock_backend /\ cl_pc[0] \in {"barrier", "synced"}) =>
        DOMAIN root = DOMAIN root_before \ Unfinalized
  /\ (\E p \in Processes : cl_pc[p] = "synced") =>
        (\A p \in Processes : cl_pc[p] = "synced")
  /\ ~mock_backend => \A p \in Processes : cl_pc[p] # "skipped"
  /\ mock_backend =>
        /\ root = root_before
        /\ cl_ops = {}
        /\ \A p \in Processes : cl_pc[p] \in {"start", "skipped"}

\* A root with an unfinalized and a finalized checkpoint and an unfinalized
\* directory of another name, after the cleanup on both processes.
C11_Witness ==
  /\ ~mock_backend
  /\ \A p \in Processes : cl_pc[p] = "synced"
  /\ Unfinalized # {}
  /\ cl_ops = {<<0, f>> : f \in Unfinalized}
  /\ \E f \in Glob(DOMAIN root) : root[f] = "finalized"
  /\ OtherName \in DOMAIN root /\ root[OtherName] = "tmp"

----------------------------------------------------------------------------
(* Claims about the handling of exceptions in tune.                        *)

\* What a step adds to the record of trial t.
Added(t) == SubSeq(feedback'[t], Len(feedback[t]) + 1, Len(feedback'[t]))

\* The calls process w has made on trial t, in order.
CallsBy(t, w) == SelectSeq(feedback[t], LAMBDA c : c.by = w)

\* What the EarlyStoppingError handler does on process w, step by step.
StopHandled(w) ==
  LET e == w_exc[w]
      t == w_trial[w]
  IN /\ (w_pc[w] = "raised" /\ w_pc'[w] \in {"es_skip", "es_done"}) =>
          IF e.skip
            THEN Added(t) = << >>
            ELSE /\ Len(Added(t)) = 1
                 /\ Added(t)[1].op = "add_measurement"
                 /\ Added(t)[1].by = w
                 /\ Added(t)[1].step = e.step
                 /\ e.reward # "None" => Added(t)[1].reward = e.reward
                 /\ e.reward = "None" => Added(t)[1].reward \in Rewards
     /\ (w_pc[w] = "es_skip_go" /\ w_pc'[w] # "es_skip_go") =>
          /\ Len(Added(t)) = 1
          /\ Added(t)[1].op = "skip"
          /\ Added(t)[1].reason # ""
          /\ e.skip_reason # "" => Added(t)[1].reason = e.skip_reason
     /\ (w_pc[w] = "es_done_go" /\ w_pc'[w] # "es_done_go") =>
          /\ Len(Added(t)) = 1
          /\ Added(t)[1].op = "done"
          /\ CallsBy(t, w) # << >>
          /\ CallsBy(t, w)[Len(CallsBy(t, w))].op = "add_measurement"
     /\ (w_pc[w] = "raised" /\ w_exc[w].type = "EarlyStoppingError"
           /\ handles_stop(w)) =>
          w_pc'[w] \in {"raised", IF e.skip THEN "es_skip" ELSE "es_done"}

ExceptionHandled(w) ==
  LET e == w_exc[w]
      t == w_trial[w]
      allowed == e.type = "FloatingPointError" \/ e.type \in errors_to_skip
  IN /\ (w_pc[w] = "raised" /\ w_pc'[w] # "raised" /\ allowed) =>
          /\ Added(t) = <<[op |-> "skip", by |-> w, reward |-> "", metrics |-> "",
                           step |-> 0, reason |-> e.type]>>
          /\ w_pc'[w] = "sample"
          /\ w_trial'[w] = t
     /\ (w_pc[w] = "cb" /\ w_pc'[w] = "sample") =>
          /\ Len(Added(t)) = 1
          /\ Added(t)[1].op = "skip"
          /\ Added(t)[1].reason = "Reward is NaN."
          /\ w_trial'[w] = t
     /\ (w_pc[w] = "raised" /\ w_pc'[w] # "raised" /\ ~allowed
           /\ e.type # "EarlyStoppingError") =>
          /\ Added(t) = << >>
          /\ w_pc'[w] = "aborted"
     /\ w_pc[w] = "aborted" =>
          /\ w_pc'[w] = "aborted"
          /\ w_trial'[w] = w_trial[w]

\* C13: an exception of the body of a trial that is in errors_to_skip, or a
\* FloatingPointError, makes the trial skipped with the description of the
\* exception as the reason, and the process goes on to sample the next trial;
\* any other exception ends tune on the process, which starts no further trial.
C13_SkipOnExceptions == [][\A w \in workers : ExceptionHandled(w)]_vars

\* A process works on the second trial after an allowlisted exception made it
\* skip the first.
C13_Witness ==
  \E w \in workers :
    /\ w_trial[w] = 2
    /\ w_pc[w] = "loop"
    /\ \E k \in DOMAIN feedback[1] :
         /\ feedback[1][k].op = "skip"
         /\ feedback[1][k].by = w
         /\ feedback[1][k].reason \in errors_to_skip

----------------------------------------------------------------------------
(* Claims about the steps of the measurements of a trial.                  *)

\* The sub-experiment in which the k-th call on trial t was made: the callback
\* names it in the metrics of its measurement, the final measurement is of the
\* last one, and the handler of tune adds its measurement in the sub-experiment
\* its process was running.
SubExperimentOf(t, k) ==
  LET c == feedback[t][k]
  IN IF \E i \in SubExperiments : c.metrics = "metrics:" \o sub_experiment_id(i)
       THEN CHOOSE i \in SubExperiments :
              c.metrics = "metrics:" \o sub_experiment_id(i)
       ELSE IF c.metrics = "final_metrics" THEN NumSubExperiments - 1
       ELSE w_sub[c.by]

\* C14 (as the specification states it): a measurement made in the
\* sub-experiment of index i carries a step in the range of that sub-experiment,
\* i * 1_000_000_000 + g for a raw step g, so that no two measurements of
\* different sub-experiments of a trial share a step.
C14_AsStated ==
  \A t \in Trials : \A k \in CallsOn(t, "add_measurement") :
    /\ feedback[t][k].step \div SUB_EXPERIMENT_STEP_OFFSET = SubExperimentOf(t, k)
    /\ \A l \in CallsOn(t, "add_measurement") :
         SubExperimentOf(t, k) # SubExperimentOf(t, l) =>
           feedback[t][k].step # feedback[t][l].step

----------------------------------------------------------------------------
(* _aggregate_metrics.                                                     *)
(* An Optional dict, list or tuple is << >> for None and <<x>> for x; a    *)
(* float is written as a string, and "None" for None.                      *)

\* metric_utils.update_float_dict(target, source, prefix): the entries of
\* source are written into target, under prefix/key when a prefix is given
\* (<<prefix>>), and a key written again takes the new value.
update_float_dict(target, source, prefix) ==
  IF prefix = << >> THEN source @@ target
  ELSE [q \in {prefix[1] \o "/" \o k : k \in DOMAIN source} |->
          source[CHOOSE k \in DOMAIN source : prefix[1] \o "/" \o k = q]]
       @@ target

EmptyDict == [k \in {} |-> "None"]

\* _add_input_based_metrics: the prefix of the metrics of the input named name.
InputPrefix(name, dataset_type, category) ==
  LET typed == IF dataset_type # << >>
                 THEN dataset_type[1] \o "_" \o name ELSE name
  IN IF category # << >> THEN typed \o "/" \o category[1] ELSE typed

\* _add_input_based_metrics: `merged` after the first n pairs of zip(input_p,
\* metrics_list).
RECURSIVE MergedInputs(_, _, _, _, _)
MergedInputs(input_p, metrics_list, dataset_type, category, n) ==
  IF n = 0 THEN EmptyDict
  ELSE LET merged == MergedInputs(input_p, metrics_list, dataset_type,
                                  category, n - 1)
       IN IF metrics_list[n] = << >> THEN merged
          ELSE update_float_dict(
                 merged, metrics_list[n][1],
                 <<InputPrefix(input_p[n], dataset_type, category)>>)

add_input_based_metrics_kept(metrics, input_p, metrics_list, dataset_type, category) ==
  IF input_p = << >> \/ metrics_list = << >> THEN metrics
  ELSE metrics @@ MergedInputs(input_p[1], metrics_list[1], dataset_type,
                               category, Len(input_p[1]))

\* _aggregate_metrics._add_input_based_metrics, as a function of `metrics`.
add_input_based_metrics(metrics, input_p, metrics_list, dataset_type, category) ==
  IF input_p = << >> \/ metrics_list = << >> THEN metrics
  ELSE update_float_dict(
         metrics,
         MergedInputs(input_p[1], metrics_list[1], dataset_type, category,
                      Len(input_p[1])),
         << >>)

\* _aggregate_metrics._add_metric_if_not_none.
add_metric_if_not_none(metrics, name, value) ==
  IF value # "None" THEN (name :> value) @@ metrics ELSE metrics

\* _aggregate_metrics(train_metrics, eval_train_metrics, eval_metrics,
\* decode_metrics, num_params, train_steps_per_sec), on the record a of its
\* arguments.
aggregate_metrics(a) ==
  LET m1 == IF a.train_metrics # << >>
              THEN update_float_dict(EmptyDict, a.train_metrics[1], <<"train">>)
              ELSE EmptyDict
      m2 == IF a.eval_train_metrics # << >>
              THEN update_float_dict(m1, a.eval_train_metrics[1],
                                     <<"eval_train/metrics">>)
              ELSE m1
      m3 == IF a.eval_metrics # << >>
              THEN LET e == a.eval_metrics[1]
                   IN add_input_based_metrics(
                        add_input_based_metrics(m2, e.input_p, e.metrics_list,
                                                <<"eval_test">>, <<"metrics">>),
                        e.input_p, e.scoring_metrics_list,
                        <<"eval_test">>, <<"scoring_eval">>)
              ELSE m2
      m4 == IF a.decode_metrics # << >>
              THEN LET d == a.decode_metrics[1]
                   IN add_input_based_metrics(
                        add_input_based_metrics(
                          add_input_based_metrics(m3, d.input_p, d.metrics_list,
                                                  <<"decode_test">>, << >>),
                          d.input_p, d.processed_metrics_list,
                          <<"decode_test">>, << >>),
                        d.input_p, d.seqio_metrics_list, <<"decode_test">>, << >>)
              ELSE m3
      m5 == add_metric_if_not_none(m4, "train_steps_per_sec",
                                   a.train_steps_per_sec)
      m6 == IF a.eval_metrics # << >>
              THEN ("eval_steps_per_sec" :> a.eval_metrics[1].steps_per_sec) @@ m5
              ELSE m5
      m7 == IF a.decode_metrics # << >>
              THEN ("decode_steps_per_sec" :> a.decode_metrics[1].steps_per_sec)
                   @@ m6
              ELSE m6
  IN add_metric_if_not_none(m7, "num_params", a.num_params)

\* The metrics a family reports: None, or the metric "a" with the value v.
OptMetrics(v) == {<< >>, <<("a" :> v)>>}

\* The metrics lists of one input, named "x": None, or one entry, which is None
\* when the input was not evaluated.
OptMetricsList(v) == {<< >>} \cup {<<<<m>>>> : m \in OptMetrics(v)}

OptFloat(v) == {"None", v}

EvalMetricsValues ==
  [input_p : {<< >>, <<<<"x">>>>},
   metrics_list : OptMetricsList("2"),
   scoring_metrics_list : OptMetricsList("5"),
   steps_per_sec : OptFloat("8")]

DecodeMetricsValues ==
  [input_p : {<<<<"x">>>>},
   metrics_list : OptMetricsList("3"),
   processed_metrics_list : OptMetricsList("6"),
   seqio_metrics_list : OptMetricsList("7"),
   steps_per_sec : OptFloat("9")]

AggregateArgs ==
  [fn : {"_aggregate_metrics"},
   train_metrics : OptMetrics("1"),
   eval_train_metrics : OptMetrics("4"),
   eval_metrics : {<< >>} \cup {<<e>> : e \in EvalMetricsValues},
   decode_metrics : {<< >>} \cup {<<d>> : d \in DecodeMetricsValues},
   num_params : OptFloat("10"),
   train_steps_per_sec : OptFloat("11")]

InitAggregate ==
  /\ fn_args \in AggregateArgs
  /\ fn_result = << >>
  /\ RestMain
  /\ RestCleanup
  /\ RestWrite

Aggregate ==
  /\ fn_result = << >>
  /\ fn_result' = <<aggregate_metrics(fn_args)>>
  /\ UNCHANGED <<fn_args, saveVars, deleteVars, tuneVars, cleanupVars, writeVars>>

NextAggregate == Aggregate

SpecAggregate == InitAggregate /\ [][NextAggregate]_vars


\* The entry of a metrics list was evaluated: the list and the inputs are given
\* and the entry of the input is not None.
Evaluated(input_p, metrics_list) ==
  input_p # << >> /\ metrics_list # << >> /\ metrics_list[1][1] # << >>

\* C15 (as the specification states it): with a train metric a, an eval metric a
\* and a decode metric a, the merged mapping has the key a, with the value of
\* the decode metric.
C15_AsStated ==
  (/\ fn_result # << >>
   /\ fn_args.train_metrics # << >>
   /\ fn_args.eval_metrics # << >>
   /\ Evaluated(fn_args.eval_metrics[1].input_p,
                fn_args.eval_metrics[1].metrics_list)
   /\ fn_args.decode_metrics # << >>
   /\ Evaluated(fn_args.decode_metrics[1].input_p,
                fn_args.decode_metrics[1].metrics_list))
  => /\ "a" \in DOMAIN fn_result[1]
     /\ fn_result[1]["a"] = fn_args.decode_metrics[1].metrics_list[1][1][1]["a"]

\* C15 (amended): every family writes its metrics under its own prefix, in the
\* order train, eval-train, eval, decode, scalars, and a key written again takes
\* the later value: the metric a of train, eval-train and eval is kept under
\* train/a, eval_train/metrics/a, eval_test_<input>/metrics/a and
\* eval_test_<input>/scoring_eval/a, no key a is written, and the three metrics
\* lists of decode share the key decode_test_<input>/a, which holds the value of
\* the last of metrics, processed metrics and seqio metrics that has one.
C15_MergeOrder ==
  fn_result # << >> =>
    LET r == fn_result[1]
        a == fn_args
        has(k, v) == k \in DOMAIN r /\ r[k] = v
        ev == a.eval_metrics
        de == a.decode_metrics
        evald(l) == ev # << >> /\ Evaluated(ev[1].input_p, l)
        decod(l) == de # << >> /\ Evaluated(de[1].input_p, l)
    IN /\ "a" \notin DOMAIN r
       /\ IF a.train_metrics # << >> THEN has("train/a", "1")
          ELSE "train/a" \notin DOMAIN r
       /\ IF a.eval_train_metrics # << >> THEN has("eval_train/metrics/a", "4")
          ELSE "eval_train/metrics/a" \notin DOMAIN r
       /\ IF ev # << >> /\ evald(ev[1].metrics_list)
            THEN has("eval_test_x/metrics/a", "2")
            ELSE "eval_test_x/metrics/a" \notin DOMAIN r
       /\ IF ev # << >> /\ evald(ev[1].scoring_metrics_list)
            THEN has("eval_test_x/scoring_eval/a", "5")
            ELSE "eval_test_x/scoring_eval/a" \notin DOMAIN r
       /\ IF de = << >> THEN "decode_test_x/a" \notin DOMAIN r
          ELSE IF decod(de[1].seqio_metrics_list)
                 THEN has("decode_test_x/a", "7")
          ELSE IF decod(de[1].processed_metrics_list)
                 THEN has("decode_test_x/a", "6")
          ELSE IF decod(de[1].metrics_list) THEN has("decode_test_x/a", "3")
          ELSE "decode_test_x/a" \notin DOMAIN r
       /\ a.train_steps_per_sec # "None" =>
            has("train_steps_per_sec", a.train_steps_per_sec)
       /\ a.num_params # "None" => has("num_params", a.num_params)
       /\ DOMAIN r \subseteq
            {"train/a", "eval_train/metrics/a", "eval_test_x/metrics/a",
             "eval_test_x/scoring_eval/a", "decode_test_x/a",
             "train_steps_per_sec", "eval_steps_per_sec",
             "decode_steps_per_sec", "num_params"}

\* The merge of a train, an eval and a decode metric a, with processed and seqio
\* metrics of the decode input as well.
C15_Witness ==
  /\ fn_result # << >>
  /\ fn_args.train_metrics # << >>
  /\ fn_args.eval_metrics # << >>
  /\ Evaluated(fn_args.eval_metrics[1].input_p,
               fn_args.eval_metrics[1].metrics_list)
  /\ fn_args.decode_metrics # << >>
  /\ \A l \in {fn_args.decode_metrics[1].metrics_list,
               fn_args.decode_metrics[1].processed_metrics_list,
               fn_args.decode_metrics[1].seqio_metrics_list} :
       Evaluated(fn_args.decode_metrics[1].input_p, l)
  /\ fn_result[1]["train/a"] = "1"
  /\ fn_result[1]["eval_test_x/metrics/a"] = "2"
  /\ fn_result[1]["decode_test_x/a"] = "7"

\* C28 (as the specification states it): the merged mapping binds no key to
\* None, whichever of the train, eval-train, eval, decode and scalar inputs are
\* given, a steps_per_sec of the eval or decode metrics that is None included.
C28_AsStated ==
  (fn_args.fn = "_aggregate_metrics" /\ fn_result # << >>) =>
    \A k \in DOMAIN fn_result[1] : fn_result[1][k] # "None"

----------------------------------------------------------------------------
(* is_last_checkpoint.                                                     *)

\* The flags of trainer_lib.RunningMode.
RunningModes == SUBSET {"TRAIN", "EVAL", "DECODE"}

max(a, b) == IF a >= b THEN a ELSE b

is_last_checkpoint_at_end_only(running_mode, global_step, num_train_steps, eval_interval_steps, decode_interval_steps, save_interval) ==
  num_train_steps - global_step = 0

is_last_checkpoint(running_mode, global_step, num_train_steps, eval_interval_steps, decode_interval_steps, save_interval) ==
  LET remaining == num_train_steps - global_step
      last_eval == IF "EVAL" \in running_mode
                     THEN remaining < max(eval_interval_steps, save_interval)
                     ELSE FALSE
      last_decode == IF "DECODE" \in running_mode
                       THEN remaining < max(decode_interval_steps, save_interval)
                       ELSE FALSE
  IN IF remaining = 0 THEN TRUE ELSE last_eval \/ last_decode

LastCheckpointArgs ==
  [fn : {"is_last_checkpoint"},
   running_mode : RunningModes,
   global_step : Steps,
   num_train_steps : Steps,
   eval_interval_steps : 0..MaxInterval,
   decode_interval_steps : 0..MaxInterval,
   save_interval_steps : 0..MaxInterval]

InitLastCheckpoint ==
  /\ fn_args \in LastCheckpointArgs
  /\ fn_result = << >>
  /\ RestMain
  /\ RestCleanup
  /\ RestWrite

IsLastCheckpoint ==
  /\ fn_result = << >>
  /\ fn_result' = <<is_last_checkpoint(
                      fn_args.running_mode, fn_args.global_step,
                      fn_args.num_train_steps, fn_args.eval_interval_steps,
                      fn_args.decode_interval_steps,
                      fn_args.save_interval_steps)>>
  /\ UNCHANGED <<fn_args, saveVars, deleteVars, tuneVars, cleanupVars, writeVars>>

NextLastCheckpoint == IsLastCheckpoint

SpecLastCheckpoint == InitLastCheckpoint /\ [][NextLastCheckpoint]_vars

\* C16: is_last_checkpoint is true when global_step = num_train_steps, true when
\* the steps that remain are fewer than the larger of the save interval and the
\* eval interval, in eval mode, or the decode interval, in decode mode, and
\* false in every other case.
C16_IsLastCheckpoint ==
  fn_result # << >> =>
    LET a == fn_args
        remaining == a.num_train_steps - a.global_step
        larger(x) == IF x > a.save_interval_steps THEN x
                     ELSE a.save_interval_steps
    IN fn_result[1] <=>
         \/ a.global_step = a.num_train_steps
         \/ \E m \in a.running_mode \cap {"EVAL", "DECODE"} :
              remaining < larger(IF m = "EVAL" THEN a.eval_interval_steps
                                 ELSE a.decode_interval_steps)

\* Before the end of the training, in eval mode alone: true for a step within
\* the save interval of the end though not within the eval interval.
C16_Witness ==
  /\ fn_result # << >>
  /\ fn_result[1]
        /\ fn_args.running_mode = {"EVAL"}
        /\ fn_args.num_train_steps - fn_args.global_step
             >= fn_args.eval_interval_steps
        /\ fn_args.num_train_steps - fn_args.global_step > 0
        /\ fn_args.decode_interval_steps >
             fn_args.num_train_steps - fn_args.global_step

----------------------------------------------------------------------------
(* OrbaxCheckpointManager._create_checkpoints: the checkpoints found under *)
(* the root at construction.                                               *)
(* The name of an entry is a record: its prefix, the decimal digits that   *)
(* follow and what is left after them.                                     *)

CheckpointTypes == {"CHECKPOINT_FLAX", "CHECKPOINT_GDA"}

\* The digits of the decimal numeral of n, and the number a numeral denotes.
RECURSIVE Digits(_)
Digits(n) == IF n < 10 THEN <<n>> ELSE Append(Digits(n \div 10), n % 10)

RECURSIVE IntOf(_)
IntOf(ds) ==
  IF ds = << >> THEN 0
  ELSE 10 * IntOf(SubSeq(ds, 1, Len(ds) - 1)) + ds[Len(ds)]

\* checkpoints.checkpoint_name(step): the step in eight digits, zero-padded.
RECURSIVE ZeroPadded(_, _)
ZeroPadded(ds, width) ==
  IF Len(ds) >= width THEN ds ELSE ZeroPadded(<<0>> \o ds, width)

StepDigits == 8

\* _checkpoint_name(step), for the checkpoint type of the manager.
checkpoint_dirname(checkpoint_type, step) ==
  [prefix |-> CHECKPOINT_PREFIX,
   digits |-> IF checkpoint_type = "CHECKPOINT_FLAX" THEN Digits(step)
              ELSE ZeroPadded(Digits(step), StepDigits),
   rest |-> ""]

\* checkpoints.is_checkpoint_asset(x): the name is the prefix and a numeral.
is_checkpoint_asset(x) ==
  x.prefix = CHECKPOINT_PREFIX /\ x.digits # << >> /\ x.rest = ""

\* int(os.path.basename(x).replace(CHECKPOINT_PREFIX, '')).
StepOf(x) == IntOf(x.digits)

\* sorted(...), as an insertion sort of a list of integers.
RECURSIVE Inserted(_, _)
Inserted(sorted, n) ==
  IF sorted = << >> THEN <<n>>
  ELSE IF n < sorted[1] THEN <<n>> \o sorted
  ELSE <<sorted[1]>> \o Inserted(Tail(sorted), n)

RECURSIVE Sorted(_)
Sorted(xs) ==
  IF xs = << >> THEN << >> ELSE Inserted(Sorted(Tail(xs)), xs[1])

sorted_as_listed(xs) == xs

sorted(xs) == Sorted(xs)

RECURSIVE Filtered(_)
Filtered(names) ==
  IF names = << >> THEN << >>
  ELSE IF is_checkpoint_asset(names[1])
         THEN <<names[1]>> \o Filtered(Tail(names))
         ELSE Filtered(Tail(names))

\* _create_checkpoints, on the manager and listing of the record a: the list of
\* CheckpointInfo it returns, or the error it raises when a directory it stats
\* is not there.
create_checkpoints(a) ==
  LET dirnames == Filtered(a.listdir)
      steps == sorted([k \in DOMAIN dirnames |-> StepOf(dirnames[k])])
      listed == {a.listdir[k] : k \in DOMAIN a.listdir}
      path(step) == checkpoint_dirname(a.checkpoint_type, step)
      get_metrics(step) ==
        IF a.track_best /\ a.has_metrics THEN <<"metrics", step>> ELSE "None"
  IN IF steps = << >> THEN [raised |-> "None", value |-> << >>]
     ELSE IF \E k \in DOMAIN steps : path(steps[k]) \notin listed
            THEN [raised |-> "FileNotFound", value |-> << >>]
     ELSE [raised |-> "None",
           value |-> [k \in DOMAIN steps |->
                        [step |-> steps[k],
                         time |-> <<"mtime", path(steps[k])>>,
                         metrics |-> get_metrics(steps[k])]]]

\* The steps a checkpoint directory can be of: the small ones and one of two
\* digits.
DiscoverSteps == CkptSteps \cup {10}

\* Entries of the root that are no checkpoints: the directory an unfinished save
\* of step 1 left, and a directory of another name.
OtherEntries ==
  {[prefix |-> CHECKPOINT_PREFIX, digits |-> <<1>>, rest |-> ".orbax-checkpoint-tmp-7"],
   [prefix |-> "state", digits |-> << >>, rest |-> ""]}

\* The lists without repetition of the elements of a set.
RECURSIVE Listings(_)
Listings(S) ==
  {<< >>} \cup UNION {{<<x>> \o l : l \in Listings(S \ {x})} : x \in S}

\* The checkpoints of the root were written by managers of the checkpoint type
\* of this one; tf.io.gfile.listdir gives the entries in any order.
CreateCheckpointsArgs ==
  UNION {[fn : {"_create_checkpoints"},
          checkpoint_type : {ty},
          track_best : BOOLEAN,
          has_metrics : BOOLEAN,
          listdir : Listings({checkpoint_dirname(ty, s) : s \in DiscoverSteps}
                             \cup OtherEntries)] : ty \in CheckpointTypes}

InitCreateCheckpoints ==
  /\ fn_args \in CreateCheckpointsArgs
  /\ fn_result = << >>
  /\ RestMain
  /\ RestCleanup
  /\ RestWrite

CreateCheckpoints ==
  /\ fn_result = << >>
  /\ fn_result' = <<create_checkpoints(fn_args)>>
  /\ UNCHANGED <<fn_args, saveVars, deleteVars, tuneVars, cleanupVars, writeVars>>

NextCreateCheckpoints == CreateCheckpoints

SpecCreateCheckpoints == InitCreateCheckpoints /\ [][NextCreateCheckpoints]_vars


\* The steps of the checkpoint directories of the listing.
ListedSteps ==
  {StepOf(fn_args.listdir[k]) :
     k \in {i \in DOMAIN fn_args.listdir : is_checkpoint_asset(fn_args.listdir[i])}}

Discovered == fn_args.fn = "_create_checkpoints" /\ fn_result # << >>

\* C17: the checkpoints found under a root are none when the root holds no
\* checkpoint directory, and otherwise one CheckpointInfo for each step that
\* has a checkpoint directory, in strictly ascending order of step, whatever
\* the order of the listing and whatever other entries the root holds; the last
\* one is the checkpoint of the greatest step.
C17_DiscoverExisting ==
  Discovered =>
    LET found == fn_result[1].value
    IN /\ fn_result[1].raised = "None"
       /\ ListedSteps = {} <=> found = << >>
       /\ {found[k].step : k \in DOMAIN found} = ListedSteps
       /\ Len(found) = Cardinality(ListedSteps)
       /\ \A k \in DOMAIN found : k > 1 => found[k - 1].step < found[k].step
       /\ found # << >> =>
            \A s \in ListedSteps : s <= found[Len(found)].step

\* Directories of three steps, one of them of two digits, listed in descending
\* order among entries that are no checkpoints, and found in ascending order.
C17_Witness ==
  /\ Discovered
  /\ Len(fn_args.listdir) = 5
  /\ StepOf(fn_args.listdir[1]) = 10
  /\ StepOf(fn_args.listdir[5]) = 1
  /\ \E k \in DOMAIN fn_args.listdir : ~is_checkpoint_asset(fn_args.listdir[k])
  /\ Len(fn_result[1].value) = 3
  /\ fn_result[1].value[3].step = 10

----------------------------------------------------------------------------
(* TrialDirectoryNameGenerator: the directory of a trial.                  *)
(* A string is the sequence of its characters.  A literal is an int, a     *)
(* float m * 10^e of one significant digit, or a str.                      *)

MaxDecisions == 2
MaxDirnames == 2

total_name_length_threshold_default == 64

Letters ==
  {"a", "b", "c", "d", "e", "f", "g", "h", "i", "j", "k", "l", "m", "n", "o",
   "p", "q", "r", "s", "t", "u", "v", "w", "x", "y", "z",
   "A", "B", "C", "D", "E", "F", "G", "H", "I", "J", "K", "L", "M", "N", "O",
   "P", "Q", "R", "S", "T", "U", "V", "W", "X", "Y", "Z"}

DigitChars == <<"0", "1", "2", "3", "4", "5", "6", "7", "8", "9">>

\* The characters of a numeral, and str(n) of an int n >= 0.
NumeralChars(ds) == [k \in DOMAIN ds |-> DigitChars[ds[k] + 1]]

str(n) == NumeralChars(Digits(n))

\* path_regex = r'^[A-Za-z0-9\-_\.]+$'
path_friendly(v) ==
  /\ v # << >>
  /\ \A k \in DOMAIN v :
       v[k] \in Letters \cup {DigitChars[d] : d \in DOMAIN DigitChars} \cup {"-", "_", "."}

startswith(s, prefix) ==
  Len(s) >= Len(prefix) /\ SubSeq(s, 1, Len(prefix)) = prefix

endswith(s, suffix) ==
  Len(s) >= Len(suffix) /\ SubSeq(s, Len(s) - Len(suffix) + 1, Len(s)) = suffix

\* s.split('.')[-1]
RECURSIVE AfterLastDot(_)
AfterLastDot(s) ==
  IF s = << >> \/ s[Len(s)] = "." THEN << >>
  ELSE Append(AfterLastDot(SubSeq(s, 1, Len(s) - 1)), s[Len(s)])

ClassPrefix == <<"<", "c", "l", "a", "s", "s", " ", "'">>

format_categorical(literal) ==
  IF startswith(literal, <<"'">>) /\ endswith(literal, <<"'">>)
    THEN SubSeq(literal, 2, Len(literal) - 1)
  ELSE IF /\ startswith(literal, SubSeq(ClassPrefix, 1, 6))
          /\ startswith(literal, ClassPrefix)
          /\ endswith(literal, <<"'", ">">>)
          /\ Len(literal) > Len(ClassPrefix) + 2
    THEN AfterLastDot(SubSeq(literal, Len(ClassPrefix) + 1, Len(literal) - 2))
  ELSE literal

\* f'{literal:.3e}' of the float literal.m * 10^literal.e.
format_float(literal) ==
  <<DigitChars[literal.m + 1], ".", "0", "0", "0", "e",
    IF literal.e < 0 THEN "-" ELSE "+">>
  \o NumeralChars(ZeroPadded(
        Digits(IF literal.e < 0 THEN 0 - literal.e ELSE literal.e), 2))

\* format_literal: the formatted literal, and _formatted_categorical_literals
\* (a set of pairs) after the call.
format_literal(cache, literal) ==
  IF literal.type = "int" THEN [formatted |-> str(literal.n), cache |-> cache]
  ELSE IF literal.type = "float"
    THEN [formatted |-> format_float(literal), cache |-> cache]
  ELSE IF \E p \in cache : p[1] = literal
    THEN [formatted |-> (CHOOSE p \in cache : p[1] = literal)[2], cache |-> cache]
  ELSE [formatted |-> format_categorical(literal.s),
        cache |-> cache \cup {<<literal, format_categorical(literal.s)>>}]

\* A generator that looks at no candidate literal.
all_path_friendly_unchecked(cache, literal_values) == [all |-> TRUE, cache |-> cache]

\* all(path_friendly(self.format_literal(v)) for v in dp.literal_values): the
\* value, and the cache after the calls made until the value was known.
RECURSIVE AllPathFriendly(_, _)
AllPathFriendly(cache, literal_values) ==
  IF literal_values = << >> THEN [all |-> TRUE, cache |-> cache]
  ELSE LET f == format_literal(cache, literal_values[1])
       IN IF path_friendly(f.formatted)
            THEN AllPathFriendly(f.cache, Tail(literal_values))
            ELSE [all |-> FALSE, cache |-> f.cache]

\* The loop of __init__ over dna_spec.decision_points.
RECURSIVE DecideFormats(_, _)
DecideFormats(g, decision_points) ==
  IF decision_points = << >> THEN g
  ELSE LET dp == decision_points[1]
           friendly == AllPathFriendly(g.formatted_categorical_literals,
                                       dp.literal_values)
           fmt == IF dp.kind = "CustomDecisionPoint" THEN "EMPTY"
                  ELSE IF dp.kind = "Choices" /\ friendly.all THEN "LITERAL"
                  ELSE "VALUE"
       IN DecideFormats(
            [g EXCEPT !.decision_formats = Append(@, <<dp, fmt>>),
                      !.formatted_categorical_literals =
                        IF dp.kind = "Choices" THEN friendly.cache ELSE @,
                      !.total_key_len = @ + Len(dp.name)],
            Tail(decision_points))

include_decision_names_up_to(total_key_len, total_name_length_threshold) ==
  total_key_len <= total_name_length_threshold

include_decision_names(total_key_len, total_name_length_threshold) ==
  total_key_len < total_name_length_threshold

\* TrialDirectoryNameGenerator(root_dir, dna_spec, total_name_length_threshold)
TrialDirectoryNameGenerator(root_dir, dna_spec, total_name_length_threshold) ==
  LET g == DecideFormats([decision_formats |-> << >>,
                          formatted_categorical_literals |-> {},
                          total_key_len |-> 0],
                         dna_spec)
  IN [root_dir |-> root_dir,
      include_decision_names |->
        include_decision_names(g.total_key_len, total_name_length_threshold),
      decision_formats |-> g.decision_formats,
      formatted_categorical_literals |-> g.formatted_categorical_literals]

\* The loop of dirname over self._decision_formats: the pairs (name, value), and
\* the cache after it.  dna[k] is the decision of the k-th decision point.
RECURSIVE KvPairs(_, _, _, _)
KvPairs(cache, decision_formats, dna, k) ==
  IF k > Len(decision_formats) THEN [kv_pairs |-> << >>, cache |-> cache]
  ELSE LET dp == decision_formats[k][1]
           fmt == decision_formats[k][2]
           decision == dna[k]
           f == IF fmt = "EMPTY"
                  THEN [formatted |-> <<"(", "C", "U", "S", "T", "O", "M", ")">>,
                        cache |-> cache]
                ELSE IF fmt = "LITERAL"
                  THEN format_literal(cache, dp.literal_values[decision.value + 1])
                ELSE IF dp.kind = "Float"
                  THEN format_literal(cache, decision.float)
                ELSE [formatted |-> <<"(">> \o str(decision.value) \o <<")">>,
                      cache |-> cache]
           rest == KvPairs(f.cache, decision_formats, dna, k + 1)
       IN [kv_pairs |-> <<<<dp.name, f.formatted>>>> \o rest.kv_pairs,
           cache |-> rest.cache]

\* '|'.join(items)
RECURSIVE Joined(_)
Joined(items) ==
  IF items = << >> THEN << >>
  ELSE IF Len(items) = 1 THEN items[1]
  ELSE items[1] \o <<"|">> \o Joined(Tail(items))

\* os.path.join(a, b)
path_join(a, b) ==
  IF startswith(b, <<"/">>) THEN b
  ELSE IF a = << >> \/ endswith(a, <<"/">>) THEN a \o b
  ELSE a \o <<"/">> \o b

\* dirname(trial_id, dna) on the generator g: the path, and the generator after
\* the call.
dirname(g, trial_id, dna) ==
  LET kv == KvPairs(g.formatted_categorical_literals, g.decision_formats, dna, 1)
      items == [k \in DOMAIN kv.kv_pairs |->
                  IF g.include_decision_names
                    THEN kv.kv_pairs[k][1] \o <<"=">> \o kv.kv_pairs[k][2]
                    ELSE kv.kv_pairs[k][2]]
  IN [path |-> path_join(path_join(g.root_dir, str(trial_id)), Joined(items)),
      generator |-> [g EXCEPT !.formatted_categorical_literals = kv.cache]]

\* A name of half the default threshold: two of them reach it.
LongName(c) == [k \in 1..(total_name_length_threshold_default \div 2) |-> c]

\* A literal: its type and, of the other fields, the one of its type.
IntLiteral(n) == [type |-> "int", n |-> n, m |-> 0, e |-> 0, s |-> << >>]

FloatLiteral(m, e) == [type |-> "float", n |-> 0, m |-> m, e |-> e, s |-> << >>]

StrLiteral(s) == [type |-> "str", n |-> 0, m |-> 0, e |-> 0, s |-> s]

\* The decision points of the search spaces: a custom one, a choice among path
\* friendly literals (1 and 'ab'), a choice among literals of which one is not
\* path friendly (<class 'm.C'> and a/b), and a float.
DecisionPoints ==
  {[kind |-> "CustomDecisionPoint", name |-> <<"c">>, literal_values |-> << >>],
   [kind |-> "Choices", name |-> <<"x">>,
    literal_values |-> <<IntLiteral(1), StrLiteral(<<"'", "a", "b", "'">>)>>],
   [kind |-> "Choices", name |-> LongName("n"),
    literal_values |->
      <<StrLiteral(ClassPrefix \o <<"m", ".", "C", "'", ">">>),
        StrLiteral(<<"a", "/", "b">>)>>],
   [kind |-> "Float", name |-> LongName("l"), literal_values |-> << >>]}

\* dna_spec.decision_points: up to MaxDecisions decision points, in an order.
RECURSIVE DecisionLists(_, _)
DecisionLists(S, n) ==
  IF n = 0 THEN {<< >>}
  ELSE {<< >>} \cup UNION {{<<x>> \o l : l \in DecisionLists(S \ {x}, n - 1)} : x \in S}

DnaSpecs == DecisionLists(DecisionPoints, MaxDecisions)

\* The decisions a DNA can hold for a decision point: the index of a choice, or
\* the value of a float (0.1 and 500.0).
Decisions(dp) ==
  IF dp.kind = "CustomDecisionPoint"
    THEN {[value |-> 0, float |-> FloatLiteral(0, 0)]}
  ELSE IF dp.kind = "Choices"
    THEN {[value |-> k - 1, float |-> FloatLiteral(0, 0)] :
            k \in DOMAIN dp.literal_values}
  ELSE {[value |-> 0, float |-> FloatLiteral(1, 0 - 1)],
        [value |-> 0, float |-> FloatLiteral(5, 2)]}

DNAs(dna_spec) ==
  {dna \in [DOMAIN dna_spec -> UNION {Decisions(dp) : dp \in DecisionPoints}] :
     \A k \in DOMAIN dna_spec : dna[k] \in Decisions(dna_spec[k])}

Thresholds == {total_name_length_threshold_default, 1}

RootDir == <<"r", "o", "o", "t">>

\* After construction: the generator of a search space, no directory named yet.
InitDirname ==
  /\ \E dna_spec \in DnaSpecs, threshold \in Thresholds :
       fn_args = [fn |-> "dirname",
                  dna_spec |-> dna_spec,
                  total_name_length_threshold |-> threshold,
                  generator |-> TrialDirectoryNameGenerator(RootDir, dna_spec, threshold)]
  /\ fn_result = << >>
  /\ RestMain
  /\ RestCleanup
  /\ RestWrite

\* A call of dirname(trial_id, dna).
Dirname(trial_id, dna) ==
  /\ Len(fn_result) < MaxDirnames
  /\ LET d == dirname(fn_args.generator, trial_id, dna)
     IN /\ fn_result' = Append(fn_result,
                               [trial_id |-> trial_id, dna |-> dna, path |-> d.path])
        /\ fn_args' = [fn_args EXCEPT !.generator = d.generator]
  /\ UNCHANGED <<saveVars, deleteVars, tuneVars, cleanupVars, writeVars>>

NextDirname ==
  \E trial_id \in 1..MaxTrials, dna \in DNAs(fn_args.dna_spec) : Dirname(trial_id, dna)

SpecDirname == InitDirname /\ [][NextDirname]_vars


\* s.split(sep) of a string and a character.
RECURSIVE Split(_, _)
Split(s, sep) ==
  IF \A k \in DOMAIN s : s[k] # sep THEN <<s>>
  ELSE LET k == CHOOSE i \in DOMAIN s : s[i] = sep /\ \A j \in 1..(i - 1) : s[j] # sep
       IN <<SubSeq(s, 1, k - 1)>> \o Split(SubSeq(s, k + 1, Len(s)), sep)

RECURSIVE TotalNameLength(_)
TotalNameLength(decision_points) ==
  IF decision_points = << >> THEN 0
  ELSE Len(decision_points[1].name) + TotalNameLength(Tail(decision_points))

NamesIncluded ==
  TotalNameLength(fn_args.dna_spec) < fn_args.total_name_length_threshold

\* The rule of the directory name for one call of dirname.
FollowsNamingRule(call) ==
  LET parent == RootDir \o <<"/">> \o str(call.trial_id) \o <<"/">>
      name == SubSeq(call.path, Len(parent) + 1, Len(call.path))
      items == Split(name, "|")
  IN /\ startswith(call.path, parent)
     /\ fn_args.dna_spec = << >> => name = << >>
     /\ fn_args.dna_spec # << >> =>
          /\ Len(items) = Len(fn_args.dna_spec)
          /\ \A k \in DOMAIN items :
               LET key == fn_args.dna_spec[k].name \o <<"=">>
               IN IF NamesIncluded
                    THEN /\ startswith(items[k], key)
                         /\ Len(items[k]) > Len(key)
                         /\ \A i \in (Len(key) + 1)..Len(items[k]) : items[k][i] # "="
                    ELSE /\ items[k] # << >>
                         /\ \A i \in DOMAIN items[k] : items[k][i] # "="

\* C18: the directory of a trial is a function of (trial_id, DNA): two calls
\* with the same trial id and DNA give the same path; the path is
\* <root>/<trial_id>/ followed by one item for each decision point, in the order
\* of the decision points and separated by '|', each item being name=value when
\* the total length of the names of the decision points is strictly below the
\* threshold and the value alone otherwise.
C18_DirectoryNaming ==
  fn_args.fn = "dirname" =>
    /\ \A i, j \in DOMAIN fn_result :
         (fn_result[i].trial_id = fn_result[j].trial_id
          /\ fn_result[i].dna = fn_result[j].dna)
           => fn_result[i].path = fn_result[j].path
    /\ \A i \in DOMAIN fn_result : FollowsNamingRule(fn_result[i])

\* The directory of a trial named twice for the same DNA, in a search space of
\* two decision points whose names reach the default threshold together.
C18_Witness ==
  /\ fn_args.fn = "dirname"
  /\ Len(fn_result) = 2
  /\ fn_result[1].trial_id = fn_result[2].trial_id
  /\ fn_result[1].dna = fn_result[2].dna
  /\ Len(fn_args.dna_spec) = 2
  /\ fn_args.total_name_length_threshold = total_name_length_threshold_default
  /\ TotalNameLength(fn_args.dna_spec) = total_name_length_threshold_default
  /\ ~\E k \in DOMAIN fn_result[2].path : fn_result[2].path[k] = "="

\* The value of the k-th decision point in the path of a call of dirname.
ItemValue(call, k) ==
  LET parent == RootDir \o <<"/">> \o str(call.trial_id) \o <<"/">>
      item == Split(SubSeq(call.path, Len(parent) + 1, Len(call.path)), "|")[k]
      key == fn_args.dna_spec[k].name \o <<"=">>
  IN IF NamesIncluded THEN SubSeq(item, Len(key) + 1, Len(item)) ELSE item

\* The literal of a candidate as it is shown, and whether it can stand in a path.
Cleaned(literal) == format_literal({}, literal).formatted

FilesystemSafe(literal) == path_friendly(Cleaned(literal))

\* C27: a custom decision point is rendered as (CUSTOM); a categorical one by
\* the cleaned literal of the chosen option when the cleaned literals of all its
\* candidates are filesystem-safe, and by the 0-based index of the chosen
\* option in parentheses when one of them is not, whether or not the chosen
\* literal itself is safe.
C27_CategoricalRendering ==
  fn_args.fn = "dirname" =>
    \A i \in DOMAIN fn_result : \A k \in DOMAIN fn_args.dna_spec :
      LET dp == fn_args.dna_spec[k]
          chosen == fn_result[i].dna[k].value
          v == ItemValue(fn_result[i], k)
      IN /\ dp.kind = "CustomDecisionPoint"
              => v = <<"(", "C", "U", "S", "T", "O", "M", ")">>
         /\ dp.kind = "Choices" =>
              IF \A c \in DOMAIN dp.literal_values : FilesystemSafe(dp.literal_values[c])
                THEN v = Cleaned(dp.literal_values[chosen + 1])
                ELSE v = <<"(">> \o str(chosen) \o <<")">>

\* A directory named for a choice whose own literal is safe (<class 'm.C'>,
\* shown as C) among candidates of which another is not (a/b): the item is (0).
C27_Witness ==
  /\ fn_args.fn = "dirname"
  /\ \E i \in DOMAIN fn_result : \E k \in DOMAIN fn_args.dna_spec :
       LET dp == fn_args.dna_spec[k]
           chosen == fn_result[i].dna[k].value
       IN /\ dp.kind = "Choices"
          /\ chosen = 0
          /\ FilesystemSafe(dp.literal_values[chosen + 1])
          /\ Cleaned(dp.literal_values[chosen + 1]) = <<"C">>
          /\ \E c \in DOMAIN dp.literal_values : ~FilesystemSafe(dp.literal_values[c])
          /\ ItemValue(fn_result[i], k) = <<"(", "0", ")">>
          /\ \E j \in DOMAIN fn_args.dna_spec :
               fn_args.dna_spec[j].kind = "CustomDecisionPoint"

----------------------------------------------------------------------------
(* tune, from makedirs to its two debug files: each process of the         *)
(* experiment calls _write_file_once on search_space.txt and then on       *)
(* search_algorithm.txt, under the job_log_dir they share.                 *)

DebugFiles == <<"search_space.txt", "search_algorithm.txt">>

\* What str(search_space.dna_spec) and str(search_algorithm) give: the same on
\* every process.
DebugContent(file) ==
  IF file = 1 THEN "str(search_space.dna_spec)" ELSE "str(search_algorithm)"

\* except tf.errors.NotFoundError
caught(error) == error = "NotFoundError"

\* The processes have made job_log_dir; the files may be there from an earlier
\* start of the experiment.
InitWriteOnce ==
  /\ gfile \in [DOMAIN DebugFiles -> {<< >>, <<[content |-> "earlier", writer |-> 0 - 1]>>}]
  /\ gfile_writes = [f \in DOMAIN DebugFiles |-> << >>]
  /\ wo_pc = [p \in Processes |-> "exists"]
  /\ wo_file = [p \in Processes |-> 1]
  /\ wo_log = {}
  /\ is_constant = FALSE
  /\ tune_pc = [p \in Processes |-> "debug_files"]
  /\ makedirs_calls = Processes
  /\ artifacts = {}
  /\ RestMain
  /\ RestCleanup
  /\ RestLib

\* _write_file_once returns on process p: tune creates the artifact of the file
\* and goes on to the next file.
WriteOnceReturns(p) ==
  /\ artifacts' = artifacts \cup {<<p, DebugFiles[wo_file[p]]>>}
  /\ IF wo_file[p] < Len(DebugFiles)
       THEN /\ wo_file' = [wo_file EXCEPT ![p] = @ + 1]
            /\ wo_pc' = [wo_pc EXCEPT ![p] = "exists"]
       ELSE /\ wo_pc' = [wo_pc EXCEPT ![p] = "done"]
            /\ UNCHANGED wo_file

\* if not tf.io.gfile.exists(file_path)
Exists(p) ==
  /\ wo_pc[p] = "exists"
  /\ IF gfile[wo_file[p]] # << >>
       THEN WriteOnceReturns(p)
       ELSE /\ wo_pc' = [wo_pc EXCEPT ![p] = "write"]
            /\ UNCHANGED <<wo_file, artifacts>>
  /\ UNCHANGED <<gfile, gfile_writes, wo_log, is_constant, tune_pc, makedirs_calls>>
  /\ UNCHANGED <<saveVars, deleteVars, tuneVars, cleanupVars, libVars>>

\* with tf.io.gfile.GFile(file_path, 'w') as f: f.write(content), succeeding:
\* the file is created, or replaced when it is there.
Write(p) ==
  /\ wo_pc[p] = "write"
  /\ gfile' = [gfile EXCEPT ![wo_file[p]] =
                 <<[content |-> DebugContent(wo_file[p]), writer |-> p]>>]
  /\ gfile_writes' = [gfile_writes EXCEPT ![wo_file[p]] = Append(@, p)]
  /\ WriteOnceReturns(p)
  /\ UNCHANGED <<wo_log, is_constant, tune_pc, makedirs_calls>>
  /\ UNCHANGED <<saveVars, deleteVars, tuneVars, cleanupVars, libVars>>

\* Another process is, or was, writing the file p is about to write.
Racing(p) ==
  \E q \in Processes \ {p} :
    \/ wo_file[q] = wo_file[p] /\ wo_pc[q] = "write"
    \/ \E k \in DOMAIN gfile_writes[wo_file[p]] : gfile_writes[wo_file[p]][k] = q

\* The write fails with tf.errors.NotFoundError, as it can while another
\* process writes the file: the except clause logs a warning.
WriteFails(p) ==
  /\ wo_pc[p] = "write"
  /\ Racing(p)
  /\ IF caught("NotFoundError")
       THEN /\ wo_log' = wo_log \cup {<<p, DebugFiles[wo_file[p]]>>}
            /\ WriteOnceReturns(p)
       ELSE /\ wo_pc' = [wo_pc EXCEPT ![p] = "raised"]
            /\ UNCHANGED <<wo_log, wo_file, artifacts>>
  /\ UNCHANGED <<gfile, gfile_writes, is_constant, tune_pc, makedirs_calls>>
  /\ UNCHANGED <<saveVars, deleteVars, tuneVars, cleanupVars, libVars>>

NextWriteOnce ==
  \E p \in Processes : Exists(p) \/ Write(p) \/ WriteFails(p)

SpecWriteOnce == InitWriteOnce /\ [][NextWriteOnce]_vars

\* C19: the debug files are written once: a file that is there, from an
\* earlier start or from the write of another process, is not written again
\* (the first successful writer wins); and a NotFoundError of the write is
\* logged and does not leave _write_file_once.
C19_AsStated ==
  /\ \A f \in DOMAIN DebugFiles :
       /\ Len(gfile_writes[f]) <= 1
       /\ gfile[f] # << >> /\ gfile_writes[f] # << >> =>
            gfile[f][1].writer = gfile_writes[f][1]
  /\ \A p \in Processes : wo_pc[p] # "raised"

\* What holds of the routine: a file found by the check is left alone, so a
\* file of an earlier start is never written; every process comes to the end
\* without an error; a failed write leaves a warning and the file as it was.
C19_WriteOnceSequential ==
  /\ \A f \in DOMAIN DebugFiles :
       (gfile[f] # << >> /\ gfile[f][1].content = "earlier") => gfile_writes[f] = << >>
  /\ \A p \in Processes : wo_pc[p] # "raised"
  /\ \A f \in DOMAIN DebugFiles :
       gfile_writes[f] # << >> =>
         /\ gfile[f] # << >>
         /\ gfile[f][1].content = DebugContent(f)
         /\ gfile[f][1].writer = gfile_writes[f][Len(gfile_writes[f])]

----------------------------------------------------------------------------
(* OrbaxCheckpointManager: __init__, _get_save_directory and structure,    *)
(* each as a function of the manager and the checkpoint root it is called  *)
(* on, giving what it raises or returns and the manager and root after it. *)

DEFAULT_ITEM_NAME == "default"
METRIC_ITEM_NAME == "metrics"

\* The root after the _cleanup_tmp_directories of a start-up on one process
\* and a real backend: the unfinalized checkpoint directories are gone.
CleanedUp(entries) ==
  [f \in {g \in DOMAIN entries : ~(g \in Glob(DOMAIN entries) /\ entries[g] = "tmp")}
     |-> entries[f]]

\* OrbaxCheckpointManager(directory, options, checkpoint_type=...), where there
\* was no manager.
manager_init(a) ==
  IF a.checkpoint_type = "CHECKPOINT_UNSPECIFIED"
    THEN [raised |-> "ValueError: Must specify checkpoint type.",
          value |-> << >>, manager |-> a.manager, entries |-> a.entries]
    ELSE [raised |-> "None",
          value |-> << >>,
          manager |-> <<[checkpoint_type |-> a.checkpoint_type,
                         save_interval_steps |->
                           IF a.save_interval_steps = 0 THEN 1
                           ELSE a.save_interval_steps]>>,
          entries |-> CleanedUp(a.entries)]

\* checkpoints._make_checkpoint_step_dir(directory, step, checkpoint_type): the
\* path directory / checkpoint_name(step), as the list of its components.
make_checkpoint_step_dir(directory, step, checkpoint_type) ==
  <<directory, checkpoint_dirname(checkpoint_type, step)>>

get_save_directory_of_any_key(a) ==
  [raised |-> "None",
   value |-> make_checkpoint_step_dir(a.directory, a.step, a.manager[1].checkpoint_type),
   manager |-> a.manager, entries |-> a.entries]

\* _get_save_directory(step, directory, key_name); key_name is << >> for None.
get_save_directory(a) ==
  IF a.key_name = << >> \/ a.key_name = <<DEFAULT_ITEM_NAME>>
    THEN [raised |-> "None",
          value |-> make_checkpoint_step_dir(a.directory, a.step,
                                             a.manager[1].checkpoint_type),
          manager |-> a.manager, entries |-> a.entries]
    ELSE [raised |-> "ValueError: Unrecognized item is not currently supported.",
          value |-> << >>, manager |-> a.manager, entries |-> a.entries]

\* structure()
structure(a) ==
  IF a.manager[1].checkpoint_type = "CHECKPOINT_FLAX"
    THEN [raised |-> "ValueError: structure not supported for Flax format checkpoints.",
          value |-> << >>, manager |-> a.manager, entries |-> a.entries]
    ELSE [raised |-> "None", value |-> <<"super().structure()">>,
          manager |-> a.manager, entries |-> a.entries]

\* The entries of a checkpoint root: directories of steps 1 and 2, finalized or
\* not, and another directory.
RootEntries ==
  UNION {[names -> {"finalized", "tmp"}] :
           names \in SUBSET {checkpoint_name(1), checkpoint_name(2), OtherName}}

Managers ==
  {<<[checkpoint_type |-> ty, save_interval_steps |-> n]>> :
     ty \in CheckpointTypes, n \in 1..MaxInterval}

KeyNames == {<< >>, <<DEFAULT_ITEM_NAME>>, <<METRIC_ITEM_NAME>>, <<OtherName>>}

ConfigCalls ==
  [fn : {"__init__"},
   manager : {<< >>},
   entries : RootEntries,
   checkpoint_type : CheckpointTypes \cup {"CHECKPOINT_UNSPECIFIED"},
   save_interval_steps : 0..MaxInterval]
  \cup
  [fn : {"_get_save_directory"},
   manager : Managers,
   entries : RootEntries,
   step : DiscoverSteps,
   directory : {"root"},
   key_name : KeyNames]
  \cup
  [fn : {"structure"},
   manager : Managers,
   entries : RootEntries]

InitConfig ==
  /\ fn_args \in ConfigCalls
  /\ fn_result = << >>
  /\ RestMain
  /\ RestCleanup
  /\ RestWrite

Construct ==
  /\ fn_args.fn = "__init__"
  /\ fn_result = << >>
  /\ fn_result' = <<manager_init(fn_args)>>
  /\ UNCHANGED <<fn_args, saveVars, deleteVars, tuneVars, cleanupVars, writeVars>>

GetSaveDirectory ==
  /\ fn_args.fn = "_get_save_directory"
  /\ fn_result = << >>
  /\ fn_result' = <<get_save_directory(fn_args)>>
  /\ UNCHANGED <<fn_args, saveVars, deleteVars, tuneVars, cleanupVars, writeVars>>

Structure ==
  /\ fn_args.fn = "structure"
  /\ fn_result = << >>
  /\ fn_result' = <<structure(fn_args)>>
  /\ UNCHANGED <<fn_args, saveVars, deleteVars, tuneVars, cleanupVars, writeVars>>

NextConfig == Construct \/ GetSaveDirectory \/ Structure

SpecConfig == InitConfig /\ [][NextConfig]_vars

Raised == fn_result # << >> /\ fn_result[1].raised # "None"

Returned == fn_result # << >> /\ fn_result[1].raised = "None"

\* C20: a configuration error of the checkpoint manager raises and changes
\* neither the manager nor the checkpoint root: the construction with an
\* unspecified checkpoint type (no manager comes to be), _get_save_directory
\* with a key other than None and the default key, and structure() on a manager
\* of Flax checkpoints; nothing else raises.  With no key or the default key
\* the save directory is <directory>/<prefix><step>, with no directory of the
\* item below it, and structure() of another format is the superclass's.
C20_ConfigErrors ==
  fn_args.fn \in {"__init__", "_get_save_directory", "structure"} =>
    /\ Raised =>
         /\ fn_result[1].manager = fn_args.manager
         /\ fn_result[1].entries = fn_args.entries
    /\ (fn_args.fn = "__init__" /\ fn_result # << >>) =>
         (Raised <=> fn_args.checkpoint_type = "CHECKPOINT_UNSPECIFIED")
    /\ (fn_args.fn = "_get_save_directory" /\ fn_result # << >>) =>
         /\ Raised <=> fn_args.key_name \notin {<< >>, <<DEFAULT_ITEM_NAME>>}
         /\ Returned =>
              /\ Len(fn_result[1].value) = 2
              /\ fn_result[1].value[1] = fn_args.directory
              /\ fn_result[1].value[2].prefix = CHECKPOINT_PREFIX
              /\ StepOf(fn_result[1].value[2]) = fn_args.step
              /\ fn_result[1].value[2].rest = ""
              /\ fn_result[1].manager = fn_args.manager
              /\ fn_result[1].entries = fn_args.entries
    /\ (fn_args.fn = "structure" /\ fn_result # << >>) =>
         /\ Raised <=> fn_args.manager[1].checkpoint_type = "CHECKPOINT_FLAX"
         /\ Returned => fn_result[1].value = <<"super().structure()">>

\* A construction with an unspecified checkpoint type on a root that holds an
\* unfinalized checkpoint directory, which a construction that succeeds would
\* have removed: it raised, and the directory is there.
C20_Witness ==
  /\ fn_args.fn = "__init__"
  /\ Raised
  /\ checkpoint_name(1) \in DOMAIN fn_args.entries
  /\ fn_args.entries[checkpoint_name(1)] = "tmp"
  /\ CleanedUp(fn_args.entries) # fn_args.entries
  /\ checkpoint_name(1) \in DOMAIN fn_result[1].entries
  /\ fn_result[1].manager = << >>

----------------------------------------------------------------------------
(* tune, from its entry to the trial_fn of its first trial, on the         *)
(* processes of an experiment.                                             *)

\* `if search_space.dna_spec.is_constant: raise ValueError(...)`
aborts_tuning_never(constant) == FALSE

aborts_tuning(constant) == constant

InitSetup ==
  /\ is_constant \in BOOLEAN
  /\ tune_pc = [p \in Processes |-> "start"]
  /\ makedirs_calls = {}
  /\ artifacts = {}
  /\ gfile \in [DOMAIN DebugFiles -> {<< >>, <<[content |-> "earlier", writer |-> 0 - 1]>>}]
  /\ gfile_writes = [f \in DOMAIN DebugFiles |-> << >>]
  /\ wo_pc = [p \in Processes |-> "idle"]
  /\ wo_file = [p \in Processes |-> 0]
  /\ wo_log = {}
  /\ RestMain
  /\ RestCleanup
  /\ RestLib

\* search_space = get_search_space(experiment_config), and the test of
\* is_constant: tune raises ValueError, or goes on.
GetSearchSpace(p) ==
  /\ tune_pc[p] = "start"
  /\ tune_pc' = [tune_pc EXCEPT ![p] =
                   IF aborts_tuning(is_constant) THEN "raised" ELSE "makedirs"]
  /\ UNCHANGED <<gfile, gfile_writes, wo_pc, wo_file, wo_log, is_constant,
                 makedirs_calls, artifacts>>
  /\ UNCHANGED <<saveVars, deleteVars, tuneVars, cleanupVars, libVars>>

\* tf.io.gfile.makedirs(job_log_dir), and the call of _write_file_once for the
\* first debug file.
MakeDirs(p) ==
  /\ tune_pc[p] = "makedirs"
  /\ makedirs_calls' = makedirs_calls \cup {p}
  /\ tune_pc' = [tune_pc EXCEPT ![p] = "debug_files"]
  /\ wo_pc' = [wo_pc EXCEPT ![p] = "exists"]
  /\ wo_file' = [wo_file EXCEPT ![p] = 1]
  /\ UNCHANGED <<gfile, gfile_writes, wo_log, is_constant, artifacts>>
  /\ UNCHANGED <<saveVars, deleteVars, tuneVars, cleanupVars, libVars>>

\* The debug files are done with: `for example, feedback in pg.sample(...)`
\* gives the first trial.
SampleFirst(p) ==
  /\ tune_pc[p] = "debug_files"
  /\ wo_pc[p] = "done"
  /\ tune_pc' = [tune_pc EXCEPT ![p] = "sampled"]
  /\ UNCHANGED <<gfile, gfile_writes, wo_pc, wo_file, wo_log, is_constant,
                 makedirs_calls, artifacts>>
  /\ UNCHANGED <<saveVars, deleteVars, tuneVars, cleanupVars, libVars>>

\* The call of trial_fn for the first sub-experiment of the first trial.
CallTrialFn(p) ==
  /\ tune_pc[p] = "sampled"
  /\ tune_pc' = [tune_pc EXCEPT ![p] = "trial_fn"]
  /\ UNCHANGED <<gfile, gfile_writes, wo_pc, wo_file, wo_log, is_constant,
                 makedirs_calls, artifacts>>
  /\ UNCHANGED <<saveVars, deleteVars, tuneVars, cleanupVars, libVars>>

NextSetup ==
  \E p \in Processes :
    \/ GetSearchSpace(p)
    \/ MakeDirs(p)
    \/ Exists(p)
    \/ Write(p)
    \/ WriteFails(p)
    \/ SampleFirst(p)
    \/ CallTrialFn(p)

SpecSetup == InitSetup /\ [][NextSetup]_vars

\* C21: with a constant search space tune raises on every process once the
\* search space is known, and nothing else happens: job_log_dir is not made, no
\* debug file is written and no artifact created, no trial is sampled and no
\* trial function called.
C21_ConstantSearchSpace ==
  (\A p \in Processes : tune_pc[p] # "idle") =>
    (is_constant =>
       /\ \A p \in Processes : tune_pc[p] \in {"start", "raised"}
       /\ makedirs_calls = {}
       /\ artifacts = {}
       /\ \A f \in DOMAIN gfile_writes : gfile_writes[f] = << >>
       /\ \A p \in Processes : wo_pc[p] = "idle")

\* tune has raised on every process of an experiment whose search space is
\* constant.
C21_Witness ==
  /\ is_constant
  /\ \A p \in Processes : tune_pc[p] = "raised"
  /\ makedirs_calls = {}

----------------------------------------------------------------------------
(* experiment_lib.get_experiment.  An experiment name and a module name    *)
(* are strings; the registry is the set of the registered names, and the   *)
(* class registered under a name is written <<name>>.                      *)

\* s.rsplit('.', 1)[0]: what is before the last '.', or s when it has none.
RECURSIVE BeforeLastDot(_, _)
BeforeLastDot(s, k) ==
  IF k = 0 THEN s
  ELSE IF s[k] = "." THEN SubSeq(s, 1, k - 1)
  ELSE BeforeLastDot(s, k - 1)

\* experiment_registry.get(experiment_name): the class, or << >> for None.
registry_get(registry, experiment_name) ==
  IF experiment_name \in registry THEN <<experiment_name>> ELSE << >>

ExperimentNames ==
  {<<"m", ".", "E">>, <<"m", ".", "F">>, <<"a", ".", "m", ".", "E">>, <<"E">>}

ModuleNames == {<<"m">>, <<"a", ".", "m">>, <<"E">>, <<"a">>}

\* What a module registers when it is imported and registers its experiments.
RegisteredBy(module_name) ==
  IF module_name = <<"m">> THEN {<<"m", ".", "E">>, <<"m", ".", "F">>}
  ELSE IF module_name = <<"a", ".", "m">> THEN {<<"a", ".", "m", ".", "E">>}
  ELSE IF module_name = <<"E">> THEN {<<"E">>}
  ELSE {}

\* importlib.import_module(module_name), where modules says of each module
\* whether it is missing, registers nothing, or registers its experiments.
import_module(modules, registry, module_name) ==
  IF module_name \notin DOMAIN modules \/ modules[module_name] = "missing"
    THEN [raised |-> "ModuleNotFoundError", registry |-> registry]
    ELSE [raised |-> "None",
          registry |-> IF modules[module_name] = "registers"
                         THEN registry \cup RegisteredBy(module_name)
                         ELSE registry]

\* A get_experiment that returns what the second lookup gives.
get_experiment_unchecked(a) ==
  LET module_name == BeforeLastDot(a.experiment_name, Len(a.experiment_name))
      imported == import_module(a.modules, a.registry, module_name)
  IN IF registry_get(a.registry, a.experiment_name) # << >>
       THEN [raised |-> "None",
             value |-> registry_get(a.registry, a.experiment_name),
             imports |-> << >>, registry |-> a.registry]
       ELSE [raised |-> "None",
             value |-> registry_get(imported.registry, a.experiment_name),
             imports |-> <<module_name>>, registry |-> imported.registry]

\* get_experiment(experiment_name): what it raises or returns, the modules it
\* imported and the registry after it.
get_experiment(a) ==
  LET module_name == BeforeLastDot(a.experiment_name, Len(a.experiment_name))
      imported == import_module(a.modules, a.registry, module_name)
  IN IF registry_get(a.registry, a.experiment_name) # << >>
       THEN [raised |-> "None",
             value |-> registry_get(a.registry, a.experiment_name),
             imports |-> << >>, registry |-> a.registry]
     ELSE IF imported.raised = "ModuleNotFoundError"
       THEN [raised |-> "ValueError: Could not find experiment",
             value |-> << >>,
             imports |-> <<module_name>>, registry |-> imported.registry]
     ELSE IF registry_get(imported.registry, a.experiment_name) # << >>
       THEN [raised |-> "None",
             value |-> registry_get(imported.registry, a.experiment_name),
             imports |-> <<module_name>>, registry |-> imported.registry]
     ELSE [raised |-> "ValueError: Could not find experiment",
           value |-> << >>,
           imports |-> <<module_name>>, registry |-> imported.registry]

GetExperimentArgs ==
  [fn : {"get_experiment"},
   experiment_name : ExperimentNames,
   registry : SUBSET ExperimentNames,
   modules : [ModuleNames -> {"missing", "empty", "registers"}]]

InitGetExperiment ==
  /\ fn_args \in GetExperimentArgs
  /\ fn_result = << >>
  /\ RestMain
  /\ RestCleanup
  /\ RestWrite

GetExperiment ==
  /\ fn_result = << >>
  /\ fn_result' = <<get_experiment(fn_args)>>
  /\ UNCHANGED <<fn_args, saveVars, deleteVars, tuneVars, cleanupVars, writeVars>>

NextGetExperiment == GetExperiment

SpecGetExperiment == InitGetExperiment /\ [][NextGetExperiment]_vars

\* m is what the name has before its last '.'.
IsModuleOf(m, name) ==
  \E k \in DOMAIN name :
    /\ name[k] = "."
    /\ \A j \in (k + 1)..Len(name) : name[j] # "."
    /\ m = SubSeq(name, 1, k - 1)

\* C22: a registered name gives its class with no import; otherwise the module
\* named by what the name has before its last '.' is imported (one import),
\* and the class is returned if the name is registered then; if the module is
\* not found, or the name is not registered after the import, get_experiment
\* raises the 'Could not find experiment' error.  It never returns None.
C22_GetExperiment ==
  (fn_args.fn = "get_experiment" /\ fn_result # << >>) =>
    LET name == fn_args.experiment_name
        r == fn_result[1]
    IN /\ r.raised = "None" => r.value = <<name>>
       /\ r.raised # "None" => r.raised = "ValueError: Could not find experiment"
       /\ name \in fn_args.registry =>
            r.raised = "None" /\ r.imports = << >> /\ r.registry = fn_args.registry
       /\ name \notin fn_args.registry =>
            /\ Len(r.imports) = 1
            /\ (\E k \in DOMAIN name : name[k] = ".") => IsModuleOf(r.imports[1], name)
            /\ r.raised = "None" <=>
                 /\ fn_args.modules[r.imports[1]] # "missing"
                 /\ name \in r.registry

\* The name was not registered; the import of its module registered it.
C22_Witness ==
  /\ fn_args.fn = "get_experiment" /\ fn_result # << >>
  /\ fn_args.experiment_name = <<"a", ".", "m", ".", "E">>
  /\ fn_args.registry = {<<"m", ".", "E">>}
  /\ fn_result[1].imports = <<<<"a", ".", "m">>>>
  /\ fn_result[1].value = <<fn_args.experiment_name>>

----------------------------------------------------------------------------
(* Claims about the loop of tune over the sub-experiments of a trial.      *)

\* Process w is past an exception of its trial_fn, or has left tune by one.
PastException(w) ==
  w_pc[w] \in {"raised", "es_skip", "es_skip_go", "es_done", "es_done_go",
               "es_completed", "aborted"}

\* What a step of process w does to the sub-experiment it is at.
SubExperimentStep(w) ==
  LET t == w_trial[w]
      i == w_sub[w]
  IN \* a trial is sampled where the body of the last one was left, and starts
     \* with the first sub-experiment
     /\ w_trial'[w] # t =>
          /\ w_pc[w] = "sample"
          /\ w_trial'[w] = t + 1
          /\ w_sub'[w] = 0
     \* the next sub-experiment follows when trial_fn has returned, in the
     \* same trial, with no sampling between
     /\ (w_trial'[w] = t /\ w_sub'[w] # i /\ w_pc'[w] # "finished") =>
          /\ w_sub'[w] = i + 1
          /\ i + 1 < NumSubExperiments
          /\ w_pc[w] = "loop" /\ w_pc'[w] = "loop"
     \* an exception ends the trial: the process goes to the sampling of the
     \* next trial, or leaves tune
     /\ PastException(w) =>
          /\ w_trial'[w] = t /\ w_sub'[w] = i
          /\ PastException(w)' \/ w_pc'[w] = "sample"
     /\ (w_pc[w] = "cb" /\ Len(Added(t)) = 1 /\ Added(t)[1].op = "skip"
           /\ Added(t)[1].by = w) =>
          w_pc'[w] = "sample"
     \* the callback of sub-experiment i reports at i * 1_000_000_000 +
     \* global_step, and marks the trial done in the last sub-experiment only
     /\ (w_pc[w] = "cb" /\ Len(Added(t)) = 1 /\ Added(t)[1].op = "add_measurement"
           /\ Added(t)[1].by = w) =>
          /\ Added(t)[1].step = i * SUB_EXPERIMENT_STEP_OFFSET + w_step[w]
          /\ Added(t)[1].step \div SUB_EXPERIMENT_STEP_OFFSET = i
     /\ w_pc[w] = "cb_terminate" =>
          ((\E k \in DOMAIN Added(t) : Added(t)[k].op = "done" /\ Added(t)[k].by = w)
             <=> (i = NumSubExperiments - 1 /\ process_index(w) = 0
                  /\ w_pc'[w] # "cb_terminate"))

\* C23: the sub-experiments of a trial run one after the other in their
\* order, within the one sampling of the trial; sub-experiment i has the step
\* offset i * 1_000_000_000 and is the last iff i is the final index; after an
\* EarlyStoppingError or another exception in sub-experiment i no later
\* sub-experiment of the trial is run.
C23_SubExperiments == [][\A w \in workers : SubExperimentStep(w)]_vars

\* The callback has reported in the second sub-experiment of a trial, at a step
\* of the range of that sub-experiment.
C23_Witness ==
  \E w \in workers :
    /\ w_sub[w] = 1
    /\ w_pc[w] = "loop"
    /\ \E k \in DOMAIN feedback[w_trial[w]] :
         /\ feedback[w_trial[w]][k].op = "add_measurement"
         /\ feedback[w_trial[w]][k].step > SUB_EXPERIMENT_STEP_OFFSET

----------------------------------------------------------------------------
(* Claims about the termination of a trial in the early-stopping callback. *)

\* Process w is in the callback of a last checkpoint, at or past the
\* "termination started" barrier.
Terminating(w) == w_pc[w] \in {"cb_started", "cb_terminate", "cb_completed"}

\* The callback of a last checkpoint has returned to the training loop of w.
TerminationLeft(w) == w_pc[w] = "loop" /\ w_last[w]

\* C24 (as the specification states it): at the last checkpoint every process
\* of a reporting job passes the "termination started" barrier, none waiting
\* there for a process that does not come; between the barriers process 0
\* alone, in the last sub-experiment alone, adds the final measurement at
\* tuning_step + 1, after the last measurement of the callback, and then marks
\* the trial done; no process is back from the callback of the last
\* sub-experiment before the trial is marked done.
C24_AsStated ==
  \A w \in workers :
    (is_metric_reporting_role(w) /\ w_trial[w] \in Trials) =>
      LET t == w_trial[w]
          log == feedback[t]
      IN /\ w_pc[w] = "cb_started" =>
              \A v \in JobWorkers(JobOf(w)) : ~WaitsInVainFor(w, v)
         /\ (TerminationLeft(w) /\ is_last_experiment(w_sub[w])) =>
              CallsOn(t, "done") # {}
         /\ (Terminating(w) /\ ~marks_done(w, w_sub[w])) =>
              \A k \in DOMAIN log : ~(log[k].op = "done" /\ log[k].by = w)
         /\ (w_pc[w] = "cb_completed" /\ marks_done(w, w_sub[w])) =>
              LET n == Len(log)
              IN /\ n >= 2
                 /\ log[n].op = "done" /\ log[n].by = w
                 /\ log[n - 1].op = "add_measurement" /\ log[n - 1].by = w
                 /\ log[n - 1].metrics = "final_metrics"
                 /\ log[n - 1].step = tuning_step_start(w_sub[w]) + w_step[w] + 1
                 /\ \A k \in 1..(n - 2) :
                      (log[k].op = "add_measurement"
                       /\ log[k].metrics \notin {"final_metrics", "e.metrics"})
                        => log[k].step < log[n - 1].step

----------------------------------------------------------------------------
(* The disposition of a trial.                                             *)

\* Every step that can be taken is taken in the end: a training loop returns
\* or raises, a process at a barrier all have come to passes it.
SpecTuneFair == SpecTune /\ WF_vars(NextTune)

\* On the reporting process 0 the training loops of trial t have ended: trial_fn
\* has raised, or has returned for the last sub-experiment.
TrialEnded(t) ==
  /\ "train0" \in workers
  /\ w_trial["train0"] = t
  /\ w_pc["train0"] \in {"raised", "sample"}

\* The reporting process 0 has marked trial t done or skipped, or an exception
\* has ended tune on it.
Disposed(t) ==
  /\ "train0" \in workers
  /\ w_trial["train0"] = t
  /\ \/ w_pc["train0"] = "aborted"
     \/ \E k \in DOMAIN feedback[t] :
          feedback[t][k].op \in {"done", "skip"} /\ feedback[t][k].by = "train0"

\* C25 (as the specification states it): every trial whose training loops
\* return or raise on the reporting process 0 is marked done or skipped by it
\* before the next trial, or tune ends with the exception.
C25_AsStated == \A t \in Trials : TrialEnded(t) ~> Disposed(t)


----------------------------------------------------------------------------
(* One final disposition for a trial.                                      *)

\* C26 (as the specification states it): done() and skip() are never both
\* called on the same trial, and skip() is called at most once on it.
C26_AsStated ==
  \A t \in Trials :
    /\ CallsOn(t, "done") = {} \/ CallsOn(t, "skip") = {}
    /\ Cardinality(CallsOn(t, "skip")) <= 1

====
